---- MODULE Spec2Model ----
(***************************************************************************)
(* PC-6001 PSG music driver (psg_driver.c): the bytecode sequencer and the *)
(* per-channel voice state machine, as a state machine over the driver's   *)
(* work area.  One action per public entry point of the driver             *)
(* (psg_driver_init, psg_driver_set_channel_data, psg_driver_start,        *)
(* psg_driver_stop, psg_driver_tick).  A psg_driver_tick step runs the     *)
(* tempo divider and, when it fires, the three channel ticks A, B, C to    *)
(* completion, as the C function does.                                     *)
(*                                                                         *)
(* Bytes are naturals 0..255, uint16_t fields are naturals 0..65535 and    *)
(* int8_t/int16_t fields are integers in their two's complement range;     *)
(* every store narrows explicitly (U8, U16, I8, I16).                      *)
(***************************************************************************)
EXTENDS Integers, Sequences, FiniteSets, TLC

(***************************************************************************)
(* Fixed-width arithmetic                                                  *)
(***************************************************************************)
U8(x)  == x % 256
U16(x) == x % 65536
I8(x)  == ((x + 128) % 256) - 128
I16(x) == ((x + 32768) % 65536) - 32768

\* x & m, x | m, x & ~m for a single-bit mask m (a power of two) and x >= 0
HasBit(x, m) == (x \div m) % 2 = 1
SetBit(x, m) == IF HasBit(x, m) THEN x ELSE x + m
ClrBit(x, m) == IF HasBit(x, m) THEN x - m ELSE x
Lo4(x) == x % 16
Hi4(x) == x - (x % 16)

Clamp(x, lo, hi) == IF x < lo THEN lo ELSE IF x > hi THEN hi ELSE x

(***************************************************************************)
(* Register numbers and bit masks                                          *)
(***************************************************************************)
AY_AFINE    == 0
AY_ACOARSE  == 1
AY_NOISEPER == 6
AY_ENABLE   == 7
AY_AVOL     == 8
AY_BVOL     == 9
AY_CVOL     == 10

F_NOTE      == 128
F_TIE       == 64
F_LEN_L     == 0
F_LEN_LPLUS == 16
F_LEN_1BYTE == 32
F_LEN_2BYTE == 48

CH_F_REST   == 128
CH_F_VIB_ON == 64
CH_F_VIB_PM == 32
CH_F_PSG_EG == 16
CH_F_TIE    == 8
CH_F_NEST   == 7

NULL == << >>

Chans == 0 .. 2

(***************************************************************************)
(* Pitch and tempo arithmetic                                              *)
(***************************************************************************)
psg_tone_table_oct0 ==
    << 0, 7645, 7215, 6810, 6428, 6067, 5727, 5405, 5102, 4816, 4545, 4290, 4050 >>

Pow2(n) == IF n = 0 THEN 1 ELSE IF n = 1 THEN 2 ELSE IF n = 2 THEN 4
           ELSE IF n = 3 THEN 8 ELSE IF n = 4 THEN 16 ELSE IF n = 5 THEN 32
           ELSE IF n = 6 THEN 64 ELSE IF n = 7 THEN 128 ELSE 256

\* variant of psg_calc_tone: the table is taken as that of octave 1
psg_calc_tone_from1(octave, note) ==
    IF note = 0 \/ note > 12 \/ octave < 1 \/ octave > 8
    THEN 0
    ELSE psg_tone_table_oct0[note + 1] \div Pow2(octave - 1)

psg_calc_tone(octave, note) ==
    IF note = 0 \/ note > 12 \/ octave < 1 \/ octave > 8
    THEN 0
    ELSE psg_tone_table_oct0[note + 1] \div Pow2(octave)

\* variant of calc_bpm_x10_from_t96: the quotient is not rounded
calc_bpm_x10_from_t96_floor(t96) ==
    IF t96 = 0 THEN 0 ELSE U16(12500 \div t96)

calc_bpm_x10_from_t96(t96) ==
    IF t96 = 0 THEN 0 ELSE U16((12500 + (t96 \div 2)) \div t96)

psg_clamp_tone_12bit(t) ==
    IF t < 1 THEN 1 ELSE IF t > 4095 THEN 4095 ELSE t

(***************************************************************************)
(* The work record threaded through one driver call:                       *)
(*   main, ch   the driver's work area (PSGMainWork, PSGChannel[3])        *)
(*   w          register writes issued through write_reg, in order; each   *)
(*              carries the channel whose tick issued it (3: the driver)   *)
(*   e          note events issued through note_event, in order            *)
(*   log        one entry per command object executed, with the work area  *)
(*              before and after it                                        *)
(*   tr         per channel, what its channel tick did in this call        *)
(*   rounds     rounds of channel ticks run in this call                   *)
(*   g          the byte an out-of-slice read yields in this call          *)
(*   oob        an out-of-slice read happened                              *)
(*   hung       the decode loop did not come to a note within Fuel objects *)
(***************************************************************************)
psg_write(D, by, reg, val) ==
    [D EXCEPT !.w = Append(@, [by |-> by, reg |-> reg, val |-> U8(val)])]

\* variant of psg_write_tone: coarse register first
psg_write_tone_coarse_first(D, i, tone) ==
    LET base == U8(AY_AFINE + i * 2)
        D1   == psg_write(D, i, base + 1, (tone \div 256) % 16)
    IN  psg_write(D1, i, base + 0, tone % 256)

psg_write_tone(D, i, tone) ==
    LET base == U8(AY_AFINE + i * 2)
        D1   == psg_write(D, i, base + 0, tone % 256)
    IN  psg_write(D1, i, base + 1, (tone \div 256) % 16)

psg_note_event(D, i, octave, note, volume, len, is_rest, bpm_x10) ==
    [D EXCEPT !.e = Append(@, [ch |-> i, octave |-> octave, note |-> note,
                               volume |-> volume, len |-> len,
                               is_rest |-> is_rest, bpm_x10 |-> bpm_x10])]

(***************************************************************************)
(* LFO (vibrato)                                                           *)
(***************************************************************************)
\* variant of psg_vibrato_note_init: the first swing is as long as the others
psg_vibrato_note_init_full(c) ==
    [c EXCEPT !.vib_offset     = 0,
              !.vib_wait_work  = c.vib_wait_base,
              !.vib_count_work = IF c.vib_count_base = 0 THEN 1 ELSE c.vib_count_base,
              !.vib_amp_work   = c.vib_amp_base,
              !.flags          = IF HasBit(U8(c.vib_delta_base), 128)
                                 THEN ClrBit(@, CH_F_VIB_PM)
                                 ELSE SetBit(@, CH_F_VIB_PM)]

psg_vibrato_note_init(c) ==
    [c EXCEPT !.vib_offset     = 0,
              !.vib_wait_work  = c.vib_wait_base,
              !.vib_count_work = IF c.vib_count_base = 0 THEN 1 ELSE c.vib_count_base,
              !.vib_amp_work   = U8(c.vib_amp_base \div 2),
              !.flags          = IF HasBit(U8(c.vib_delta_base), 128)
                                 THEN ClrBit(@, CH_F_VIB_PM)
                                 ELSE SetBit(@, CH_F_VIB_PM)]

\* variant of psg_vibrato_tick: the direction flag is not looked at
psg_vibrato_tick_plus(D, i) ==
    LET c == D.ch[i] IN
    IF ~HasBit(c.flags, CH_F_VIB_ON) THEN D
    ELSE IF c.vib_wait_work # 0
    THEN [D EXCEPT !.ch[i].vib_wait_work = c.vib_wait_work - 1]
    ELSE IF U8(c.vib_count_work - 1) # 0
    THEN [D EXCEPT !.ch[i].vib_count_work = U8(c.vib_count_work - 1)]
    ELSE
      LET step == U8(c.vib_delta_base) % 128
          voff == I16(c.vib_offset + step)
          tone == psg_clamp_tone_12bit(c.freq_value + voff)
          amp1 == IF c.vib_amp_work # 0 THEN c.vib_amp_work - 1 ELSE c.vib_amp_work
          flip == c.vib_amp_base # 0 /\ amp1 = 0
          c1   == [c EXCEPT
                     !.vib_count_work = IF c.vib_count_base = 0 THEN 1
                                        ELSE c.vib_count_base,
                     !.vib_offset     = voff,
                     !.vib_amp_work   = IF c.vib_amp_base = 0 THEN @
                                        ELSE IF flip THEN c.vib_amp_base ELSE amp1,
                     !.flags          = IF flip
                                        THEN (IF HasBit(@, CH_F_VIB_PM)
                                              THEN ClrBit(@, CH_F_VIB_PM)
                                              ELSE SetBit(@, CH_F_VIB_PM))
                                        ELSE @]
      IN  [psg_write_tone(D, i, tone) EXCEPT !.ch[i] = c1]

psg_vibrato_tick(D, i) ==
    LET c == D.ch[i] IN
    IF ~HasBit(c.flags, CH_F_VIB_ON) THEN D
    ELSE IF c.vib_wait_work # 0
    THEN [D EXCEPT !.ch[i].vib_wait_work = c.vib_wait_work - 1]
    ELSE IF U8(c.vib_count_work - 1) # 0
    THEN [D EXCEPT !.ch[i].vib_count_work = U8(c.vib_count_work - 1)]
    ELSE
      LET step == U8(c.vib_delta_base) % 128
          voff == IF step = 0 THEN c.vib_offset
                  ELSE IF HasBit(c.flags, CH_F_VIB_PM)
                       THEN I16(c.vib_offset - step)
                       ELSE I16(c.vib_offset + step)
          tone == psg_clamp_tone_12bit(c.freq_value + voff)
          amp1 == IF c.vib_amp_work # 0 THEN c.vib_amp_work - 1 ELSE c.vib_amp_work
          flip == c.vib_amp_base # 0 /\ amp1 = 0
          c1   == [c EXCEPT
                     !.vib_count_work = IF c.vib_count_base = 0 THEN 1
                                        ELSE c.vib_count_base,
                     !.vib_offset     = voff,
                     !.vib_amp_work   = IF c.vib_amp_base = 0 THEN @
                                        ELSE IF flip THEN c.vib_amp_base ELSE amp1,
                     !.flags          = IF flip
                                        THEN (IF HasBit(@, CH_F_VIB_PM)
                                              THEN ClrBit(@, CH_F_VIB_PM)
                                              ELSE SetBit(@, CH_F_VIB_PM))
                                        ELSE @]
      IN  [psg_write_tone(D, i, tone) EXCEPT !.ch[i] = c1]

(***************************************************************************)
(* Software envelope (EG) step of a sounding tick                          *)
(***************************************************************************)
\* variant of psg_eg_stage1: entering stage 2 always writes the volume
psg_eg_stage1_write(D, i) ==
    LET c == D.ch[i] IN
    IF c.eg_width_work # c.eg_width_base
    THEN LET ww  == I8(c.eg_width_work + c.eg_delta_base)
             vol == Clamp(c.volume + ww, 0, 15)
             D1  == [D EXCEPT !.ch[i].eg_count_work = c.eg_count_base,
                              !.ch[i].eg_width_work = ww,
                              !.ch[i].volume_adjust = ww]
         IN  psg_write(D1, i, AY_AVOL + i, vol)
    ELSE LET adj == I8(c.eg2_width_base + c.eg_width_base)
             vol == Clamp(c.volume + adj, 0, 15)
             D1  == [D EXCEPT !.ch[i].flags = SetBit(@, CH_F_PSG_EG),
                              !.ch[i].eg_width_work = 0,
                              !.ch[i].eg_count_work = U8(c.eg2_count_base) % 128,
                              !.ch[i].volume_adjust = adj]
         IN  psg_write(D1, i, AY_AVOL + i, vol)

\* variant of psg_eg_stage1: the width goes one step beyond eg_width_base
\* before the second stage begins
psg_eg_stage1_late(D, i) ==
    LET c == D.ch[i] IN
    IF c.eg_width_work # I8(c.eg_width_base + c.eg_delta_base)
    THEN LET ww  == I8(c.eg_width_work + c.eg_delta_base)
             vol == Clamp(c.volume + ww, 0, 15)
             D1  == [D EXCEPT !.ch[i].eg_count_work = c.eg_count_base,
                              !.ch[i].eg_width_work = ww,
                              !.ch[i].volume_adjust = ww]
         IN  psg_write(D1, i, AY_AVOL + i, vol)
    ELSE LET D1 == [D EXCEPT !.ch[i].flags = SetBit(@, CH_F_PSG_EG),
                             !.ch[i].eg_width_work = 0,
                             !.ch[i].eg_count_work = U8(c.eg2_count_base) % 128]
         IN  IF c.eg2_width_base # 0
             THEN LET adj == I8(c.eg2_width_base + c.eg_width_base)
                      vol == Clamp(c.volume + adj, 0, 15)
                  IN  psg_write([D1 EXCEPT !.ch[i].volume_adjust = adj],
                                i, AY_AVOL + i, vol)
             ELSE D1

\* stage 1, eg_count_work has just reached 0
psg_eg_stage1(D, i) ==
    LET c == D.ch[i] IN
    IF c.eg_width_work # c.eg_width_base
    THEN LET ww  == I8(c.eg_width_work + c.eg_delta_base)
             vol == Clamp(c.volume + ww, 0, 15)
             D1  == [D EXCEPT !.ch[i].eg_count_work = c.eg_count_base,
                              !.ch[i].eg_width_work = ww,
                              !.ch[i].volume_adjust = ww]
         IN  psg_write(D1, i, AY_AVOL + i, vol)
    ELSE LET D1 == [D EXCEPT !.ch[i].flags = SetBit(@, CH_F_PSG_EG),
                             !.ch[i].eg_width_work = 0,
                             !.ch[i].eg_count_work = U8(c.eg2_count_base) % 128]
         IN  IF c.eg2_width_base # 0
             THEN LET adj == I8(c.eg2_width_base + c.eg_width_base)
                      vol == Clamp(c.volume + adj, 0, 15)
                  IN  psg_write([D1 EXCEPT !.ch[i].volume_adjust = adj],
                                i, AY_AVOL + i, vol)
             ELSE D1

\* variant of psg_eg_stage2: the width grows without a limit
psg_eg_stage2_nocap(D, i) ==
    LET c     == D.ch[i]
        ww    == I8(c.eg_width_work + 1)
        delta == IF HasBit(U8(c.eg2_count_base), 128) THEN -ww ELSE ww
        adj   == I8(delta + c.eg_width_base + c.eg2_width_base)
        vol   == Clamp(c.volume + adj, 0, 15)
        D1    == [D EXCEPT !.ch[i].eg_count_work = U8(c.eg2_count_base) % 128,
                           !.ch[i].eg_width_work = ww,
                           !.ch[i].volume_adjust = adj]
    IN  psg_write(D1, i, AY_AVOL + i, vol)

\* stage 2, eg_count_work has just reached 0
psg_eg_stage2(D, i) ==
    LET c     == D.ch[i]
        ww    == IF c.eg_width_work < 15 THEN I8(c.eg_width_work + 1)
                 ELSE c.eg_width_work
        delta == IF HasBit(U8(c.eg2_count_base), 128) THEN -ww ELSE ww
        adj   == I8(delta + c.eg_width_base + c.eg2_width_base)
        vol   == Clamp(c.volume + adj, 0, 15)
        D1    == [D EXCEPT !.ch[i].eg_count_work = U8(c.eg2_count_base) % 128,
                           !.ch[i].eg_width_work = ww,
                           !.ch[i].volume_adjust = adj]
    IN  psg_write(D1, i, AY_AVOL + i, vol)

psg_eg_tick(D, i) ==
    LET c == D.ch[i] IN
    IF c.eg_width_base = 0 THEN D
    ELSE IF ~HasBit(c.flags, CH_F_PSG_EG)
    THEN LET n  == U8(c.eg_count_work - 1)
             D1 == [D EXCEPT !.ch[i].eg_count_work = n]
         IN  IF n = 0 THEN psg_eg_stage1(D1, i) ELSE D1
    ELSE IF c.eg2_width_base # 0
    THEN LET n  == U8(c.eg_count_work - 1)
             D1 == [D EXCEPT !.ch[i].eg_count_work = n]
         IN  IF n = 0 THEN psg_eg_stage2(D1, i) ELSE D1
    ELSE D

\* variant of psg_channel_sustain: the REST flag is not looked at
psg_channel_sustain_norest(D, i) ==
    LET c == D.ch[i] IN
    IF c.wait_counter = c.q_counter
    THEN [psg_write(D, i, AY_AVOL + i, 0) EXCEPT
             !.ch[i].flags = SetBit(@, CH_F_REST),
             !.tr[i].kind  = "gateoff"]
    ELSE [psg_eg_tick(psg_vibrato_tick(D, i), i) EXCEPT
             !.tr[i].kind = IF HasBit(c.flags, CH_F_REST) THEN "resting"
                            ELSE "sounding"]

\* variant of psg_channel_sustain: the gate closes one channel tick early
psg_channel_sustain_early(D, i) ==
    LET c == D.ch[i] IN
    IF HasBit(c.flags, CH_F_REST)
    THEN [D EXCEPT !.tr[i].kind = "resting"]
    ELSE IF c.wait_counter = c.q_counter + 1
    THEN [psg_write(D, i, AY_AVOL + i, 0) EXCEPT
             !.ch[i].flags = SetBit(@, CH_F_REST),
             !.tr[i].kind  = "gateoff"]
    ELSE [psg_eg_tick(psg_vibrato_tick(D, i), i) EXCEPT !.tr[i].kind = "sounding"]

(***************************************************************************)
(* A channel tick whose wait_counter stays above 0 (the note goes on)      *)
(***************************************************************************)
psg_channel_sustain(D, i) ==
    LET c == D.ch[i] IN
    IF HasBit(c.flags, CH_F_REST)
    THEN [D EXCEPT !.tr[i].kind = "resting"]
    ELSE IF c.wait_counter = c.q_counter
    THEN [psg_write(D, i, AY_AVOL + i, 0) EXCEPT
             !.ch[i].flags = SetBit(@, CH_F_REST),
             !.tr[i].kind  = "gateoff"]
    ELSE [psg_eg_tick(psg_vibrato_tick(D, i), i) EXCEPT !.tr[i].kind = "sounding"]

(***************************************************************************)
(* Reading the object data: data_base[data_offset + k].  A read outside    *)
(* the slice is undefined behaviour; it yields the byte D.g, which the     *)
(* caller of the tick chooses freely, and is recorded in D.oob.            *)
(***************************************************************************)
Byte(D, i, k) ==
    LET c == D.ch[i]
        p == U16(c.data_offset + k)
    IN  IF p < Len(c.data_base) THEN c.data_base[p + 1] ELSE D.g

\* data_offset++ done n times, after reading those n bytes
Adv(D, i, n) ==
    IF n = 0 THEN D
    ELSE [D EXCEPT !.ch[i].data_offset = U16(@ + n),
                   !.oob = @ \/ (D.ch[i].data_offset + n > Len(D.ch[i].data_base))]

(***************************************************************************)
(* Note object (bit 7 clear); D has the object's first byte consumed       *)
(***************************************************************************)
note_len_bytes(code) ==
    LET len_flag == ((code \div 16) % 4) * 16
    IN  IF len_flag = F_LEN_1BYTE THEN 1 ELSE IF len_flag = F_LEN_2BYTE THEN 2 ELSE 0

note_len(D, i, code) ==
    LET c        == D.ch[i]
        len_flag == ((code \div 16) % 4) * 16
    IN  IF len_flag = F_LEN_L THEN c.l_default
        ELSE IF len_flag = F_LEN_LPLUS THEN c.lplus_default
        ELSE IF len_flag = F_LEN_1BYTE THEN Byte(D, i, 0)
        ELSE U16(Byte(D, i, 0) + Byte(D, i, 1) * 256)

note_q_counter(c, tie, len) ==
    LET q == IF tie THEN 0 ELSE c.q_default
    IN  IF q >= len THEN U8(len - 1) ELSE q

\* variant of note_prev_tie: the TIE flag of the previous object is ignored
note_prev_tie_never(c) == FALSE

\* "prev_tie": the TIE flag left by the previous object of the channel
note_prev_tie(c) == HasBit(c.flags, CH_F_TIE)

\* tone period of a note: table value, then the sign-magnitude detune
note_tone(c, note) ==
    LET tone == psg_calc_tone(c.octave, note)
    IN  IF c.detune = 0 THEN tone
        ELSE IF ~HasBit(c.detune, 128) THEN U16(tone - c.detune)
        ELSE U16(tone + (c.detune % 128))

\* variant of note_volume: the envelope adjustment is added without a clamp
note_volume_unclamped(c, prev_tie) ==
    IF prev_tie THEN U8(c.volume + c.volume_adjust) ELSE c.volume

\* volume written at a note start
note_volume(c, prev_tie) ==
    IF prev_tie THEN Clamp(c.volume + c.volume_adjust, 0, 15) ELSE c.volume

\* variant of note_rest: a rest is not reported to note_event
note_rest_silent(D, i, len) ==
    psg_write([D EXCEPT !.ch[i].flags = SetBit(@, CH_F_REST)], i, AY_AVOL + i, 0)

note_rest(D, i, len) ==
    LET c  == D.ch[i]
        D1 == [D EXCEPT !.ch[i].flags = SetBit(@, CH_F_REST)]
        D2 == psg_write(D1, i, AY_AVOL + i, 0)
    IN  psg_note_event(D2, i, c.octave, 0, c.volume, len, 1, D.main.bpm_x10)

note_sound(D, i, note, len) ==
    LET c0       == [D.ch[i] EXCEPT !.flags = ClrBit(@, CH_F_REST)]
        prev_tie == note_prev_tie(c0)
        c1       == IF ~prev_tie /\ c0.eg_width_base # 0
                    THEN [c0 EXCEPT !.flags = ClrBit(@, CH_F_PSG_EG),
                                    !.eg_count_work = c0.eg_count_base,
                                    !.eg_width_work = 0]
                    ELSE c0
        c2       == IF HasBit(c1.flags, CH_F_VIB_ON) /\ ~prev_tie
                    THEN psg_vibrato_note_init(c1)
                    ELSE c1
        tone     == note_tone(c2, note)
        D1       == [D EXCEPT !.ch[i] = c2]
        D2       == IF ~prev_tie THEN psg_write(D1, i, AY_AVOL + i, 0) ELSE D1
        D3       == [D2 EXCEPT !.ch[i].freq_value = tone]
        D4       == psg_write_tone(D3, i, tone)
        D5       == psg_write(D4, i, AY_AVOL + i, note_volume(c2, prev_tie))
    IN  psg_note_event(D5, i, c2.octave, note, c2.volume, len, 0, D.main.bpm_x10)

note_object(D, i, code) ==
    LET tie  == HasBit(code, F_TIE)
        note == code % 16
        len  == note_len(D, i, code)
        D1   == [Adv(D, i, note_len_bytes(code)) EXCEPT
                    !.ch[i].wait_counter = len,
                    !.ch[i].q_counter    = note_q_counter(D.ch[i], tie, len),
                    !.tr[i] = [kind |-> IF note = 0 THEN "rest" ELSE "note",
                               code |-> code, len |-> len,
                               at |-> D.ch[i], nw |-> Len(D.w), ne |-> Len(D.e)]]
        D2   == IF note = 0 THEN note_rest(D1, i, len) ELSE note_sound(D1, i, note, len)
    IN  [D2 EXCEPT !.ch[i].flags = IF tie THEN SetBit(@, CH_F_TIE)
                                   ELSE ClrBit(@, CH_F_TIE)]

(***************************************************************************)
(* Command objects (bit 7 set); D has the opcode consumed                  *)
(***************************************************************************)
\* variant of cmd_octave: an operand outside 1..8 is ignored
cmd_octave_checked(D, i, code) ==
    IF Lo4(code) \in 1 .. 8 THEN [D EXCEPT !.ch[i].octave = Lo4(code)] ELSE D

cmd_octave(D, i, code) == [D EXCEPT !.ch[i].octave = Lo4(code)]

cmd_volume(D, i, code) ==
    LET hi == Hi4(code)
        v  == D.ch[i].volume
    IN  IF hi = 144 THEN [D EXCEPT !.ch[i].volume = Lo4(code)]
        ELSE IF hi = 160
        THEN [D EXCEPT !.ch[i].volume = IF v + Lo4(code) > 15 THEN 15
                                        ELSE U8(v + Lo4(code))]
        ELSE [D EXCEPT !.ch[i].volume = IF v - Lo4(code) < 0 THEN 0
                                        ELSE U8(v - Lo4(code))]

\* 0xEA  S: software envelope parameters
cmd_S(D, i) ==
    LET p1 == Byte(D, i, 0) IN
    IF p1 # 0
    THEN [Adv(D, i, 5) EXCEPT !.ch[i].eg_width_base  = I8(p1),
                              !.ch[i].eg_count_base  = Byte(D, i, 1),
                              !.ch[i].eg_delta_base  = I8(Byte(D, i, 2)),
                              !.ch[i].eg2_width_base = I8(Byte(D, i, 3)),
                              !.ch[i].eg2_count_base = I8(Byte(D, i, 4))]
    ELSE [Adv(D, i, 1) EXCEPT !.ch[i].eg_width_base = 0]

\* 0xEB  W: noise period
\* variant of cmd_W: the shadow of register 6 is left as it was
cmd_W_noshadow(D, i) ==
    psg_write(Adv(D, i, 1), i, AY_NOISEPER, Byte(D, i, 0))

cmd_W(D, i) ==
    LET reg6 == Byte(D, i, 0)
        D1   == psg_write(Adv(D, i, 1), i, AY_NOISEPER, reg6)
    IN  [D1 EXCEPT !.main.reg6_value = reg6]

\* 0xEC  W+/-: relative noise period
cmd_Wrel(D, i) ==
    LET wval == D.main.reg6_value + Byte(D, i, 0)
        reg6 == Clamp(wval, 0, 31)
        D1   == psg_write(Adv(D, i, 1), i, AY_NOISEPER, reg6)
    IN  [D1 EXCEPT !.main.reg6_value = reg6]

\* variant of cmd_P_reg7: the register is rebuilt from the bits of this
\* channel alone
cmd_P_reg7_alone(reg7, i, code) ==
    192 + (IF HasBit(code, 1) THEN 0 ELSE Pow2(i))
        + (IF HasBit(code, 2) THEN 0 ELSE Pow2(i + 3))

\* variant of cmd_P_reg7: a set bit of the opcode sets the bit of the register
cmd_P_reg7_set(reg7, i, code) ==
    LET tbit == Pow2(i)
        nbit == Pow2(i + 3)
        r1   == IF HasBit(code, 1) THEN SetBit(reg7, tbit) ELSE ClrBit(reg7, tbit)
    IN  IF HasBit(code, 2) THEN SetBit(r1, nbit) ELSE ClrBit(r1, nbit)

\* 0xED/0xEE/0xEF  P1/P2/P3: mixer bits of this channel
cmd_P_reg7(reg7, i, code) ==
    LET tbit == Pow2(i)
        nbit == Pow2(i + 3)
        r1   == IF HasBit(code, 1) THEN ClrBit(reg7, tbit) ELSE SetBit(reg7, tbit)
    IN  IF HasBit(code, 2) THEN ClrBit(r1, nbit) ELSE SetBit(r1, nbit)

cmd_P(D, i, code) ==
    LET reg7 == cmd_P_reg7(D.main.reg7_value, i, code)
        D1   == psg_write(D, i, AY_ENABLE, reg7)
    IN  [D1 EXCEPT !.main.reg7_value = reg7]

\* variant of cmd_nest_enter: the backups are left as they are
cmd_nest_enter_keep(D, i) ==
    LET c    == D.ch[i]
        nest == c.flags % 8
    IN  IF nest >= 4 THEN Adv(D, i, 1)
        ELSE [Adv(D, i, 1) EXCEPT
                !.ch[i].flags     = (c.flags - nest) + (nest + 1),
                !.ch[i].nest_flag = [@ EXCEPT ![nest + 1] = Byte(D, i, 0)]]

\* 0xF0  [: enter a nest level
cmd_nest_enter(D, i) ==
    LET c    == D.ch[i]
        nest == c.flags % 8
    IN  IF nest >= 4 THEN Adv(D, i, 1)
        ELSE [Adv(D, i, 1) EXCEPT
                !.ch[i].flags         = (c.flags - nest) + (nest + 1),
                !.ch[i].nest_flag     = [@ EXCEPT ![nest + 1] = Byte(D, i, 0)],
                !.ch[i].l_backup      = c.l_default,
                !.ch[i].lplus_backup  = c.lplus_default,
                \* (octave_backup & 0xF0) | octave; octave never exceeds 15
                !.ch[i].octave_backup = Hi4(c.octave_backup) + Lo4(c.octave)]

\* variant of cmd_nest_offset: the one-byte operand is taken as it is
cmd_nest_offset_plain(D, i, code) ==
    IF code = 242 THEN U16(Byte(D, i, 0) + Byte(D, i, 1) * 256)
    ELSE Byte(D, i, 0)

\* displacement operand of ]: one byte with an implied 0xFF high byte, or two
cmd_nest_offset(D, i, code) ==
    IF code = 242 THEN U16(Byte(D, i, 0) + Byte(D, i, 1) * 256)
    ELSE Byte(D, i, 0) + 65280

\* variant of cmd_nest_loop: at depth 0 the jump is taken
cmd_nest_loop_jump(D, i, code) ==
    LET offset == cmd_nest_offset(D, i, code)
        D1     == Adv(D, i, IF code = 242 THEN 2 ELSE 1)
        c      == D1.ch[i]
        nest   == c.flags % 8
    IN  IF nest = 0
        THEN [D1 EXCEPT !.ch[i].data_offset = U16(c.data_offset + offset)]
        ELSE LET n == U8(c.nest_flag[nest] - 1) IN
             IF n = 0
             THEN [D1 EXCEPT !.ch[i].nest_flag = [@ EXCEPT ![nest] = 0],
                             !.ch[i].flags     = (c.flags - nest) + (nest - 1)]
             ELSE [D1 EXCEPT !.ch[i].nest_flag     = [@ EXCEPT ![nest] = n],
                             !.ch[i].data_offset   = U16(c.data_offset + offset),
                             !.ch[i].l_default     = c.l_backup,
                             !.ch[i].lplus_default = c.lplus_backup,
                             !.ch[i].octave        = Lo4(c.octave_backup)]

\* variant of cmd_nest_loop: the count is tested before it is decremented
cmd_nest_loop_extra(D, i, code) ==
    LET offset == cmd_nest_offset(D, i, code)
        D1     == Adv(D, i, IF code = 242 THEN 2 ELSE 1)
        c      == D1.ch[i]
        nest   == c.flags % 8
    IN  IF nest = 0 THEN D1
        ELSE IF c.nest_flag[nest] = 0
             THEN [D1 EXCEPT !.ch[i].flags = (c.flags - nest) + (nest - 1)]
             ELSE [D1 EXCEPT !.ch[i].nest_flag     = [@ EXCEPT ![nest] = U8(@ - 1)],
                             !.ch[i].data_offset   = U16(c.data_offset + offset),
                             !.ch[i].l_default     = c.l_backup,
                             !.ch[i].lplus_default = c.lplus_backup,
                             !.ch[i].octave        = Lo4(c.octave_backup)]

\* 0xF1/0xF2  ]: loop back or leave the nest level
cmd_nest_loop(D, i, code) ==
    LET offset == cmd_nest_offset(D, i, code)
        D1     == Adv(D, i, IF code = 242 THEN 2 ELSE 1)
        c      == D1.ch[i]
        nest   == c.flags % 8
    IN  IF nest = 0 THEN D1
        ELSE LET n == U8(c.nest_flag[nest] - 1) IN
             IF n = 0
             THEN [D1 EXCEPT !.ch[i].nest_flag = [@ EXCEPT ![nest] = 0],
                             !.ch[i].flags     = (c.flags - nest) + (nest - 1)]
             ELSE [D1 EXCEPT !.ch[i].nest_flag     = [@ EXCEPT ![nest] = n],
                             !.ch[i].data_offset   = U16(c.data_offset + offset),
                             !.ch[i].l_default     = c.l_backup,
                             !.ch[i].lplus_default = c.lplus_backup,
                             !.ch[i].octave        = Lo4(c.octave_backup)]

\* variant of cmd_nest_break: the level is left whatever its count is
cmd_nest_break_always(D, i) ==
    LET offset == U16(Byte(D, i, 0) + Byte(D, i, 1) * 256)
        D1     == Adv(D, i, 2)
        c      == D1.ch[i]
        nest   == c.flags % 8
    IN  IF nest > 4 \/ nest = 0 THEN D1
        ELSE [D1 EXCEPT !.ch[i].nest_flag   = [@ EXCEPT ![nest] = 0],
                        !.ch[i].flags       = (c.flags - nest) + (nest - 1),
                        !.ch[i].data_offset = U16(c.data_offset + offset)]

\* 0xF3  : leave the nest level on its last repetition
cmd_nest_break(D, i) ==
    LET offset == U16(Byte(D, i, 0) + Byte(D, i, 1) * 256)
        D1     == Adv(D, i, 2)
        c      == D1.ch[i]
        nest   == c.flags % 8
    IN  IF nest > 4 \/ nest = 0 THEN D1
        ELSE IF c.nest_flag[nest] = 1
        THEN [D1 EXCEPT !.ch[i].nest_flag   = [@ EXCEPT ![nest] = 0],
                        !.ch[i].flags       = (c.flags - nest) + (nest - 1),
                        !.ch[i].data_offset = U16(c.data_offset + offset)]
        ELSE D1

\* 0xF4  I
cmd_I(D, i) == [Adv(D, i, 1) EXCEPT !.main.i_command_value = Byte(D, i, 0)]

\* 0xF5  M: LFO parameters
cmd_M(D, i) ==
    LET p4 == I8(Byte(D, i, 3))
        D1 == [Adv(D, i, 4) EXCEPT
                 !.ch[i].vib_wait_base  = Byte(D, i, 0),
                 !.ch[i].vib_count_base = Byte(D, i, 1),
                 !.ch[i].vib_amp_base   = U8(Byte(D, i, 2) * 2),
                 !.ch[i].vib_delta_base = p4,
                 !.ch[i].flags          = IF p4 # 0 THEN SetBit(@, CH_F_VIB_ON)
                                          ELSE ClrBit(@, CH_F_VIB_ON)]
    IN  [D1 EXCEPT !.ch[i] = psg_vibrato_note_init(@)]

\* 0xF8  T: tempo
cmd_T(D, i) ==
    LET t96 == Byte(D, i, 0)
    IN  [Adv(D, i, 2) EXCEPT !.main.tempo_val = t96,
                             !.main.bpm_x10   = calc_bpm_x10_from_t96(t96)]

\* variant of cmd_Urel_detune: the sum is stored as it is, in two's
\* complement
cmd_Urel_detune_twos(old, operand) ==
    LET diff == I8(operand)
        d0   == I8(old)
        d1   == IF HasBit(U8(d0), 128) THEN I8(-I8(U8(d0) % 128)) ELSE d0
    IN  U8(I8(d1 + diff))

\* 0xFC  U+/-: signed addition into the sign-magnitude detune
cmd_Urel_detune(old, operand) ==
    LET diff == I8(operand)
        d0   == I8(old)
        d1   == IF HasBit(U8(d0), 128) THEN I8(-I8(U8(d0) % 128)) ELSE d0
        d2   == I8(d1 + diff)
        d3   == IF d2 < 0 THEN I8(SetBit(U8(I8(-d2)), 128)) ELSE d2
    IN  U8(d3)

\* 0xFD  M%: LFO step
cmd_Mstep(D, i) ==
    LET p == I8(Byte(D, i, 0))
    IN  [Adv(D, i, 1) EXCEPT
            !.ch[i].vib_delta_base = p,
            !.ch[i].flags          = IF p # 0 THEN SetBit(@, CH_F_VIB_ON)
                                     ELSE ClrBit(@, CH_F_VIB_ON)]

\* 0xFE  J: remember the return point of the end mark
cmd_J(D, i) ==
    LET c == D.ch[i]
    IN  [D EXCEPT !.ch[i].j_return_offset = c.data_offset,
                  !.ch[i].octave_backup   = U8(c.octave * 16) + Lo4(c.octave_backup)]

\* variant of cmd_end: the end mark ends the channel whether or not a J was
\* executed
cmd_end_always(D, i) == [D EXCEPT !.ch[i].active = 0]

\* 0xFF  end mark
cmd_end(D, i) ==
    LET c == D.ch[i]
    IN  IF c.j_return_offset # 0
        THEN [D EXCEPT !.ch[i].data_offset = c.j_return_offset,
                       !.ch[i].octave      = Lo4(c.octave_backup \div 16)]
        ELSE [D EXCEPT !.ch[i].active = 0]

\* variant of cmd_unknown: an unknown opcode takes one operand byte
cmd_unknown_operand(D, i, code) == Adv(D, i, 1)

\* default: an opcode that is no command is reported and passed over
cmd_unknown(D, i, code) == D

command_object(D, i, code) ==
    LET hi == Hi4(code) IN
    IF hi = 128 THEN cmd_octave(D, i, code)
    ELSE IF hi = 144 \/ hi = 160 \/ hi = 176 THEN cmd_volume(D, i, code)
    ELSE CASE code = 234 -> cmd_S(D, i)
           [] code = 235 -> cmd_W(D, i)
           [] code = 236 -> cmd_Wrel(D, i)
           [] code \in {237, 238, 239} -> cmd_P(D, i, code)
           [] code = 240 -> cmd_nest_enter(D, i)
           [] code \in {241, 242} -> cmd_nest_loop(D, i, code)
           [] code = 243 -> cmd_nest_break(D, i)
           [] code = 244 -> cmd_I(D, i)
           [] code = 245 -> cmd_M(D, i)
           [] code = 246 -> D
           [] code = 247 -> [Adv(D, i, 1) EXCEPT !.ch[i].lplus_default = Byte(D, i, 0)]
           [] code = 248 -> cmd_T(D, i)
           [] code = 249 -> [Adv(D, i, 1) EXCEPT !.ch[i].l_default = Byte(D, i, 0)]
           [] code = 250 -> [Adv(D, i, 1) EXCEPT !.ch[i].q_default = Byte(D, i, 0)]
           [] code = 251 -> [Adv(D, i, 1) EXCEPT !.ch[i].detune = Byte(D, i, 0)]
           [] code = 252 -> [Adv(D, i, 1) EXCEPT
                               !.ch[i].detune = cmd_Urel_detune(@, Byte(D, i, 0))]
           [] code = 253 -> cmd_Mstep(D, i)
           [] code = 254 -> cmd_J(D, i)
           [] code = 255 -> cmd_end(D, i)
           [] OTHER -> cmd_unknown(D, i, code)

(***************************************************************************)
(* psg_channel_tick                                                        *)
(***************************************************************************)
\* objects one decode loop may go through before it is given up as hung
Fuel == 40

LogEntry(D, D1, i, code) ==
    [by |-> i, code |-> code, off |-> D.ch[i].data_offset,
     pre_main |-> D.main, pre |-> D.ch[i],
     post_main |-> D1.main, post |-> D1.ch[i],
     others |-> \A j \in Chans \ {i} : D1.ch[j] = D.ch[j],
     nw0 |-> Len(D.w), nw1 |-> Len(D1.w), ne0 |-> Len(D.e), ne1 |-> Len(D1.e)]

\* the command object that took D to D1 is recorded
Logged(D, D1, i, code) ==
    [D1 EXCEPT !.log = Append(@, LogEntry(D, D1, i, code))]

RECURSIVE psg_decode_loop(_, _, _)

\* after a command object: the loop ends with the channel, or goes on
psg_decode_next(D2, i, fuel) ==
    IF D2.ch[i].active = 0
    THEN [D2 EXCEPT !.tr[i].kind = "end"]
    ELSE psg_decode_loop(D2, i, fuel - 1)

psg_decode_loop(D, i, fuel) ==
    IF fuel = 0 THEN [D EXCEPT !.hung = TRUE, !.tr[i].kind = "hung"]
    ELSE
      LET code == Byte(D, i, 0)
      IN  IF ~HasBit(code, F_NOTE) THEN note_object(Adv(D, i, 1), i, code)
          ELSE psg_decode_next(
                   Logged(D, command_object(Adv(D, i, 1), i, code), i, code),
                   i, fuel)

\* variant of psg_channel_tick: the wait counter is decremented in 8 bits, as
\* the local uint8_t of the earlier revision src/psg_driver.c does
psg_channel_tick_u8(D, i) ==
    IF D.ch[i].active = 0 \/ D.hung THEN D
    ELSE LET wait_counter == U8(D.ch[i].wait_counter - 1)
             D1 == [D EXCEPT !.ch[i].wait_counter = wait_counter]
         IN  IF wait_counter > 0 THEN psg_channel_sustain(D1, i)
             ELSE psg_decode_loop(D1, i, Fuel)

psg_channel_tick(D, i) ==
    IF D.ch[i].active = 0 \/ D.hung THEN D
    ELSE LET wait_counter == U16(D.ch[i].wait_counter - 1)
             D1 == [D EXCEPT !.ch[i].wait_counter = wait_counter]
         IN  IF wait_counter > 0 THEN psg_channel_sustain(D1, i)
             ELSE psg_decode_loop(D1, i, Fuel)

(***************************************************************************)
(* The driver's entry points as functions of the work record              *)
(***************************************************************************)
psg_channel_reset(index) ==
    [data_base |-> NULL, data_offset |-> 0, wait_counter |-> 0,
     q_default |-> 0, l_default |-> 24, lplus_default |-> 192,
     volume |-> 12, octave |-> 4, q_counter |-> 0, flags |-> 0, detune |-> 0,
     nest_flag |-> << 0, 0, 0, 0 >>, j_return_offset |-> 0, freq_value |-> 0,
     vib_offset |-> 0, vib_wait_base |-> 0, vib_wait_work |-> 0,
     vib_count_base |-> 0, vib_count_work |-> 0, vib_amp_base |-> 0,
     vib_amp_work |-> 0, vib_delta_base |-> 0,
     l_backup |-> 0, lplus_backup |-> 0, octave_backup |-> 0,
     eg_count_base |-> 0, eg_count_work |-> 0, eg_width_base |-> 0,
     eg_width_work |-> 0, eg_delta_base |-> 0, eg2_width_base |-> 0,
     eg2_count_base |-> 0, volume_adjust |-> 0,
     channel_index |-> index, active |-> 0]

psg_main_reset ==
    [tempo_val |-> 10, tempo_counter |-> 10,
     fade_value |-> 0, fade_step |-> 0, fade_active |-> 0,
     reg6_value |-> 192, reg7_value |-> 248, i_command_value |-> 0,
     bpm_x10 |-> calc_bpm_x10_from_t96(10)]

NoTrace(c) == [kind |-> "idle", code |-> 0, len |-> 0, at |-> c, nw |-> 0, ne |-> 0]

\* the work record at the entry of a driver call
Enter(m, c, g) ==
    [main |-> m, ch |-> c, w |-> << >>, e |-> << >>, log |-> << >>,
     tr |-> [i \in Chans |-> NoTrace(c[i])], rounds |-> 0,
     g |-> g, oob |-> FALSE, hung |-> FALSE]

\* variant of psg_driver_init: the channel work is left as it is
psg_driver_init_main_only(D) ==
    LET D1 == [D EXCEPT !.main = psg_main_reset]
        D2 == psg_write(D1, 3, AY_ENABLE, 248)
    IN  psg_write(D2, 3, AY_NOISEPER, 192)

psg_driver_init(D) ==
    LET D1 == [D EXCEPT !.main = psg_main_reset,
                        !.ch   = [i \in Chans |-> psg_channel_reset(i)]]
        D2 == psg_write(D1, 3, AY_ENABLE, 248)
    IN  psg_write(D2, 3, AY_NOISEPER, 192)

\* variant of psg_driver_set_channel_data: the channel work is reset before
\* the data is set
psg_driver_set_channel_data_reset(D, ch_index, data) ==
    IF ch_index < 0 \/ ch_index >= 3 THEN D
    ELSE [D EXCEPT !.ch[ch_index] =
             [psg_channel_reset(ch_index) EXCEPT !.data_base    = data,
                                                 !.data_offset  = 0,
                                                 !.wait_counter = 1,
                                                 !.active       = 1]]

psg_driver_set_channel_data(D, ch_index, data) ==
    IF ch_index < 0 \/ ch_index >= 3 THEN D
    ELSE [D EXCEPT !.ch[ch_index].data_base    = data,
                   !.ch[ch_index].data_offset  = 0,
                   !.ch[ch_index].wait_counter = 1,
                   !.ch[ch_index].active       = 1]

psg_driver_start(D) ==
    [D EXCEPT !.ch = [i \in Chans |->
                        [D.ch[i] EXCEPT !.active = IF D.ch[i].data_base # NULL
                                                   THEN 1 ELSE 0]]]

RECURSIVE psg_driver_stop_from(_, _)
psg_driver_stop_from(D, i) ==
    IF i >= 3 THEN D
    ELSE psg_driver_stop_from(
             psg_write([D EXCEPT !.ch[i].active = 0], 3, AY_AVOL + i, 0), i + 1)

\* variant of psg_driver_stop: the channels are muted but stay active
psg_driver_stop_mute_only(D) ==
    psg_write(psg_write(psg_write(D, 3, AY_AVOL, 0), 3, AY_AVOL + 1, 0),
              3, AY_AVOL + 2, 0)

psg_driver_stop(D) == psg_driver_stop_from(D, 0)

\* the three channel ticks of one round, in the order A, B, C
psg_channel_round(D) ==
    psg_channel_tick(psg_channel_tick(psg_channel_tick(
        [D EXCEPT !.rounds = @ + 1], 0), 1), 2)

\* variant of psg_driver_tick: every call runs the channel ticks
psg_driver_tick_every(D) ==
    LET D1 == psg_channel_round(D)
    IN  [D1 EXCEPT !.main.tempo_counter = D1.main.tempo_val]

\* variant of psg_driver_tick: the counter is not reloaded after a round
psg_driver_tick_noreload(D) ==
    LET n == U8(D.main.tempo_counter - 1) IN
    IF n = 0
    THEN psg_channel_round([D EXCEPT !.main.tempo_counter = n])
    ELSE [D EXCEPT !.main.tempo_counter = n]

\* the reload of the tempo counter that ends a round
tempo_reload(m) == [m EXCEPT !.tempo_counter = m.tempo_val]

psg_driver_tick(D) ==
    LET n == U8(D.main.tempo_counter - 1) IN
    IF n = 0
    THEN [psg_channel_round([D EXCEPT !.main.tempo_counter = n])
             EXCEPT !.main = tempo_reload(@)]
    ELSE [D EXCEPT !.main.tempo_counter = n]

(***************************************************************************)
(* State                                                                   *)
(*   main, ch        the PSGDriver work area                               *)
(*   op              the entry point called last                           *)
(*   writes, events  what that call sent to write_reg and note_event       *)
(*   cmdlog, trace   the command objects it executed, and what each        *)
(*                   channel tick did                                      *)
(*   fired           rounds of channel ticks it ran (0 or 1)               *)
(*   oob, hung       it read outside a slice / its decode loop hung        *)
(* History of the run, kept for the properties below:                      *)
(*   stopped         psg_driver_stop was called and neither                *)
(*                   psg_driver_start nor a valid                          *)
(*                   psg_driver_set_channel_data since                     *)
(*   nticks, nrounds psg_driver_tick calls and rounds since the last       *)
(*                   psg_driver_init, counted for the first W calls of a   *)
(*                   run that watches W calls (Tick(W))                    *)
(*   tseen           a T command was executed since the last init          *)
(*   playing[c]      length of the object channel c decoded last, 0 when   *)
(*                   the playback was interrupted since (or none yet)      *)
(*   age[c], hage[c] channel ticks of c, and psg_driver_tick calls, since  *)
(*                   that decode                                           *)
(*   ndec[c]         note and rest objects channel c decoded since its     *)
(*                   data was set (counted up to MaxDec)                   *)
(*   initfrom        what the last psg_driver_init was applied to: the     *)
(*                   result of an init, a state after playback changed a   *)
(*                   default, or another state ("none": the last call was  *)
(*                   not an init)                                          *)
(*   avol[c]         the value written last to the volume register AVOL+c  *)
(*                   since the last psg_driver_init, -1 while there is     *)
(*                   none                                                  *)
(*   jmark[c]        offset of the J command channel c executed last since *)
(*                   the last psg_driver_init and the octave it had then,  *)
(*                   NoJ while there is none                               *)
(*   lmark[c]        l_default, lplus_default and octave of channel c at   *)
(*                   the [ that entered each nest level it is in, and at   *)
(*                   the [ it executed last since the last                 *)
(*                   psg_driver_init (NoMark where there is none)          *)
(*   lfoage[c]       n: sounding ticks of channel c on which its LFO was   *)
(*                   on and past its wait, since the LFO wrote a tone or   *)
(*                   was initialised last (counted up to 256); init:       *)
(*                   psg_vibrato_note_init was run for c since the last    *)
(*                   psg_driver_init                                       *)
(*   arg             the channel index and data passed to the last call    *)
(*                   when it was psg_driver_set_channel_data, else NoArg   *)
(* For the arithmetic of the driver taken alone (SpecCalc):                *)
(*   calc            a function of the program, its arguments, whether it  *)
(*                   was applied yet, and its result (NoCalc in the        *)
(*                   playback)                                             *)
(***************************************************************************)
VARIABLES main, ch, op, writes, events, cmdlog, trace, fired, oob, hung,
          stopped, nticks, nrounds, tseen, playing, age, hage, ndec, initfrom,
          avol, jmark, lmark, lfoage, ended, lastm, eginit, arg, calc, be

vars == << main, ch, op, writes, events, cmdlog, trace, fired, oob, hung,
           stopped, nticks, nrounds, tseen, playing, age, hage, ndec,
           initfrom, avol, jmark, lmark, lfoage, ended, lastm, eginit, arg,
           calc, be >>

\* the state of the driver and of the pure functions, which a call of the
\* GPIO backend leaves alone
DriverVars == << main, ch, op, writes, events, cmdlog, trace, fired, oob, hung,
                 stopped, nticks, nrounds, tseen, playing, age, hage, ndec,
                 initfrom, avol, jmark, lmark, lfoage, ended, lastm, eginit,
                 arg, calc >>

\* psg_driver_tick calls after an init during which the rounds are counted
Window == 25

\* decoded objects are counted up to this number
MaxDec == 8

\* the host loads object data within this many psg_driver_tick calls of an init
LoadWindow == 0

\* the run is followed no further once a channel waits longer than this
MaxWait == 1000

\* bytes an out-of-slice read may yield
Garbage == {0, 33, 255}

\* the value written last to AVOL+c by the writes w, old when there is none
LastVol(w, c, old) ==
    LET at == { k \in 1 .. Len(w) : w[k].reg = AY_AVOL + c }
    IN  IF at = {} THEN old
        ELSE w[CHOOSE k \in at : \A j \in at : j <= k].val

NoJ == [off |-> -1, octave |-> -1]

NoM == [p3 |-> -1, p4 |-> -1]

\* the third and fourth operand of the M command (0xF5) channel c executed
\* last in the log, NoM when an M% command (0xFD) followed it, old when the
\* log has neither
LastM(log, c, old) ==
    LET at == { k \in 1 .. Len(log) :
                    log[k].by = c /\ log[k].code \in { 245, 253 } }
    IN  IF at = {} THEN old
        ELSE LET k == CHOOSE k \in at : \A j \in at : j <= k
             IN  IF log[k].code = 253 THEN NoM
                 ELSE [p3 |-> log[k].pre.data_base[log[k].off + 4],
                       p4 |-> log[k].pre.data_base[log[k].off + 5]]

\* the J command channel c executed last in the log, old when there is none
LastJ(log, c, old) ==
    LET at == { k \in 1 .. Len(log) : log[k].by = c /\ log[k].code = 254 }
    IN  IF at = {} THEN old
        ELSE LET k == CHOOSE k \in at : \A j \in at : j <= k
             IN  [off |-> log[k].off, octave |-> log[k].pre.octave]

NoMark == [l |-> -1, lplus |-> -1, octave |-> -1]
NoMarks == [lv |-> << NoMark, NoMark, NoMark, NoMark >>, last |-> NoMark]

Mark(c) == [l |-> c.l_default, lplus |-> c.lplus_default, octave |-> c.octave]

\* the marks of channel c after the first k command objects of the log,
\* old being the marks before the log
RECURSIVE MarksAt(_, _, _, _)
MarksAt(log, c, k, old) ==
    IF k = 0 THEN old
    ELSE LET m == MarksAt(log, c, k - 1, old)
             e == log[k]
         IN  IF e.by = c /\ e.code = 240 /\ e.pre.flags % 8 < 4
             THEN [lv   |-> [m.lv EXCEPT ![(e.pre.flags % 8) + 1] = Mark(e.pre)],
                   last |-> Mark(e.pre)]
             ELSE m

\* the marks of the levels the channel is in
MarksIn(m, nest) ==
    [m EXCEPT !.lv = [d \in 1 .. 4 |-> IF d <= nest THEN m.lv[d] ELSE NoMark]]

NoLfo == [n |-> 0, init |-> FALSE]

\* the call D has written a tone register of channel c
ToneWritten(D, c) ==
    \E k \in 1 .. Len(D.w) :
        D.w[k].by = c /\ D.w[k].reg \in { AY_AFINE + 2 * c, AY_AFINE + 2 * c + 1 }

\* the call D has run psg_vibrato_note_init for channel c: in an M command,
\* or at the start of a note that follows an object without a tie
VibratoInit(D, c) ==
    \/ \E k \in 1 .. Len(D.log) : D.log[k].by = c /\ D.log[k].code = 245
    \/ /\ D.tr[c].kind = "note"
       /\ ~HasBit(D.tr[c].at.flags, CH_F_TIE)
       /\ HasBit(D.ch[c].flags, CH_F_VIB_ON)

\* the call D has initialised the envelope work of channel c: at the start
\* of a note that follows an object without a tie, with eg_width_base # 0
EgInit(D, c) ==
    /\ D.tr[c].kind = "note"
    /\ ~HasBit(D.tr[c].at.flags, CH_F_TIE)
    /\ D.ch[c].eg_width_base # 0

Commit(D, name) ==
    /\ main'   = D.main
    /\ calc'   = calc
    /\ be'     = be
    /\ eginit' = [c \in Chans |->
                     IF name = "init" THEN FALSE
                     ELSE IF EgInit(D, c) THEN TRUE
                     ELSE IF \E k \in 1 .. Len(D.log) :
                                 D.log[k].by = c /\ D.log[k].code = 234
                     THEN FALSE
                     ELSE eginit[c]]
    /\ lastm'  = [c \in Chans |->
                     LastM(D.log, c, IF name = "init" THEN NoM ELSE lastm[c])]
    /\ ended'  = [c \in Chans |->
                     IF name = "init" THEN FALSE
                     ELSE IF name = "set_channel_data" /\ D.ch[c] # ch[c]
                     THEN FALSE
                     ELSE IF D.tr[c].kind = "end" THEN TRUE
                     ELSE ended[c]]
    /\ lfoage' = [c \in Chans |->
                     IF name = "init" THEN NoLfo
                     ELSE IF VibratoInit(D, c) THEN [n |-> 0, init |-> TRUE]
                     ELSE IF /\ D.tr[c].kind = "sounding"
                             /\ HasBit(ch[c].flags, CH_F_VIB_ON)
                             /\ ch[c].vib_wait_work = 0
                     THEN [lfoage[c] EXCEPT
                             !.n = IF ToneWritten(D, c) THEN 0
                                   ELSE IF @ < 256 THEN @ + 1 ELSE 256]
                     ELSE lfoage[c]]
    /\ lmark'  = [c \in Chans |->
                     MarksIn(MarksAt(D.log, c, Len(D.log),
                                     IF name = "init" THEN NoMarks ELSE lmark[c]),
                             D.ch[c].flags % 8)]
    /\ jmark'  = [c \in Chans |->
                     LastJ(D.log, c, IF name = "init" THEN NoJ ELSE jmark[c])]
    /\ avol'   = [c \in Chans |->
                     LastVol(D.w, c, IF name = "init" THEN -1 ELSE avol[c])]
    /\ ch'     = D.ch
    /\ op'     = name
    /\ writes' = D.w
    /\ events' = D.e
    /\ cmdlog' = D.log
    /\ trace'  = D.tr
    /\ fired'  = D.rounds
    /\ oob'    = D.oob
    /\ hung'   = D.hung

\* A call that hung never returns, and after a read outside a slice the
\* behaviour of the program is undefined: such a run is followed no further.
Running == ~hung /\ ~oob

Zero3 == [c \in Chans |-> 0]

NoArg == [idx |-> -2, data |-> NULL]

(***************************************************************************)
(* The GPIO backend (psg_backend_rpi_gpio.c).  A backend object is the      *)
(* record [ctx, enabled, last_error]: ctx is 0 for NULL and 1 for an        *)
(* allocated rpi_gpio_t, enabled is the field of that rpi_gpio_t.  hw is    *)
(* the sequence of accesses to the memory-mapped registers made by a call,  *)
(* each [op, reg, pins]: a store to GPSET0 or GPCLR0 names the pins of its  *)
(* mask.  Pins are BCM GPIO numbers of the default board.                   *)
(***************************************************************************)
PIN_D0    == 20
PIN_BDIR  == 12
PIN_BC1   == 13
PIN_RESET == 17
PIN_CLOCK == 4
NREAD_WAIT == 3

MASK_DATABUS == PIN_D0 .. (PIN_D0 + 7)
MASK_BDIR    == { PIN_BDIR }
MASK_BC1     == { PIN_BC1 }
MASK_CTRL    == MASK_BDIR \cup MASK_BC1
MASK_RESET   == { PIN_RESET }

HwLoad(reg)        == [op |-> "load",  reg |-> reg, pins |-> {}]
HwStore(reg, pins) == [op |-> "store", reg |-> reg, pins |-> pins]

\* each helper is the sequence of register accesses it makes
gpio_config_output(pin) == << HwLoad("GPFSEL"), HwStore("GPFSEL", { pin }) >>

gpio_config_alt(pin) == << HwLoad("GPFSEL"), HwStore("GPFSEL", { pin }) >>

gpio_config ==
    [i \in 1 .. 16 |-> IF i % 2 = 1 THEN HwLoad("GPFSEL")
                       ELSE HwStore("GPFSEL", { PIN_D0 + (i \div 2) - 1 })]
    \o gpio_config_output(PIN_BDIR)
    \o gpio_config_output(PIN_BC1)
    \o gpio_config_output(PIN_RESET)

rpi_gpclk0_set_hz ==
    << HwLoad("CM_GP0CTL"), HwStore("CM_GP0CTL", {}), HwLoad("CM_GP0CTL"),
       HwStore("CM_GP0DIV", {}), HwStore("CM_GP0CTL", {}) >>

rpi_gpio_clock_enable == gpio_config_alt(PIN_CLOCK) \o rpi_gpclk0_set_hz

rpi_gpio_clock_disable ==
    << HwLoad("CM_GP0CTL"), HwStore("CM_GP0CTL", {}), HwLoad("CM_GP0CTL") >>

gpio_write_masks(set_mask, clr_mask) ==
    (IF clr_mask # {} THEN << HwStore("GPCLR0", clr_mask) >> ELSE << >>)
    \o (IF set_mask # {} THEN << HwStore("GPSET0", set_mask) >> ELSE << >>)

gpio_wait ==
    [i \in 1 .. 2 * NREAD_WAIT |-> IF i % 2 = 1 THEN HwLoad("GPCLR0")
                                   ELSE HwLoad("GPSET0")]

bus_write8(v) ==
    LET setm == { PIN_D0 + i : i \in { j \in 0 .. 7 : HasBit(v, Pow2(j)) } }
        clrm == MASK_DATABUS \ setm
    IN  gpio_write_masks(setm, clrm)

ctrl_inactive   == gpio_write_masks({}, MASK_CTRL)
ctrl_latch_addr == gpio_write_masks(MASK_CTRL, {})
ctrl_write_data == gpio_write_masks(MASK_BDIR, MASK_BC1)

ym_reset_pulse ==
    gpio_write_masks({}, MASK_RESET)
    \o gpio_write_masks(MASK_RESET, {})
    \o gpio_write_masks({}, MASK_RESET)

ym_latch_addr(reg) ==
    bus_write8(reg % 16) \o ctrl_latch_addr \o gpio_wait \o ctrl_inactive

ym_write_data(data) ==
    bus_write8(data) \o ctrl_inactive \o ctrl_write_data \o gpio_wait
    \o ctrl_inactive

ym_write_reg_raw(reg, val) == ym_latch_addr(reg) \o ym_write_data(val)

(* What the sound chip makes of the accesses hw of a call that starts with *)
(* the output pins pins0 high.  With BDIR and BC1 both high the chip       *)
(* latches the register address from the data bus, with BDIR high and BC1  *)
(* low it stores the data bus into the latched register, and RESET high    *)
(* resets it.  YmEvents is the sequence of register writes [reg, val] and  *)
(* of resets (reg = -1) that the accesses cause.                           *)
Touches(a, pin) ==
    a.op = "store" /\ a.reg \in { "GPSET0", "GPCLR0" } /\ pin \in a.pins

PinHigh(hw, pins0, pin, k) ==
    LET T == { j \in 1 .. k : Touches(hw[j], pin) }
    IN  IF T = {} THEN pin \in pins0
        ELSE hw[CHOOSE j \in T : \A i \in T : i <= j].reg = "GPSET0"

PinsAt(hw, pins0, k) ==
    { pin \in MASK_DATABUS \cup MASK_CTRL \cup MASK_RESET :
          PinHigh(hw, pins0, pin, k) }

BusValue(pins) ==
    LET b(i) == IF PIN_D0 + i \in pins THEN Pow2(i) ELSE 0
    IN  b(0) + b(1) + b(2) + b(3) + b(4) + b(5) + b(6) + b(7)

BusMode(pins) ==
    IF PIN_BDIR \in pins
    THEN (IF PIN_BC1 \in pins THEN "latch" ELSE "write")
    ELSE (IF PIN_BC1 \in pins THEN "read" ELSE "inactive")

\* the stores of hw at which the bus enters mode m
ModeEdges(hw, pins0, m) ==
    { k \in 1 .. Len(hw) :
          /\ \E pin \in MASK_CTRL : Touches(hw[k], pin)
          /\ BusMode(PinsAt(hw, pins0, k)) = m
          /\ BusMode(PinsAt(hw, pins0, k - 1)) # m }

ResetEdges(hw, pins0) ==
    { k \in 1 .. Len(hw) :
          /\ Touches(hw[k], PIN_RESET)
          /\ PinHigh(hw, pins0, PIN_RESET, k)
          /\ ~PinHigh(hw, pins0, PIN_RESET, k - 1) }

\* the register address the chip holds after the first k accesses
AddrAt(hw, pins0, addr0, k) ==
    LET L == { j \in ModeEdges(hw, pins0, "latch") : j <= k }
    IN  IF L = {} THEN addr0
        ELSE BusValue(PinsAt(hw, pins0, CHOOSE j \in L : \A i \in L : i <= j))
                 % 16

YmEvents(hw, pins0, addr0) ==
    LET W == ModeEdges(hw, pins0, "write")
        R == ResetEdges(hw, pins0)
        E == { 2 * k : k \in W } \cup { 2 * k + 1 : k \in R }
        Nth(i) == CHOOSE e \in E : Cardinality({ d \in E : d < e }) = i - 1
    IN  [i \in 1 .. Cardinality(E) |->
            LET k == Nth(i) \div 2
            IN  IF Nth(i) % 2 = 0
                THEN [reg |-> AddrAt(hw, pins0, addr0, k),
                      val |-> BusValue(PinsAt(hw, pins0, k))]
                ELSE [reg |-> -1, val |-> 0]]

\* io is what the operating system answers during rpi_gpio_init: "ok", or
\* the call that fails.  The result of the second mmap is stored unchecked
\* (the test after it looks at the first mapping again), so that a failure
\* of it makes the clock set-up dereference MAP_FAILED; the process is
\* taken to stop there (dead).
InitOutcomes == { "ok", "calloc", "open", "mmap_gpio", "mmap_cm" }

rpi_gpio_init(B, psgbe, io) ==
    IF ~psgbe THEN [B EXCEPT !.ret = 0]
    ELSE LET B0 == [B EXCEPT !.last_error = ""]
         IN  IF io = "calloc"
             THEN [B0 EXCEPT !.last_error = "calloc(ctx): out of memory",
                             !.ret = 0]
             ELSE IF io = "open"
             THEN [B0 EXCEPT !.last_error = "open(/dev/mem)", !.ret = 0]
             ELSE IF io = "mmap_gpio"
             THEN [B0 EXCEPT !.last_error = "mmap(GPIO)", !.ret = 0]
             ELSE IF io = "mmap_cm"
             THEN [B0 EXCEPT !.hw = gpio_config \o gpio_config_alt(PIN_CLOCK),
                             !.dead = TRUE]
             ELSE [B0 EXCEPT !.hw = gpio_config \o rpi_gpio_clock_enable
                                    \o ctrl_inactive \o bus_write8(0)
                                    \o gpio_write_masks({}, MASK_RESET),
                             !.enabled = 0, !.ctx = 1, !.ret = 1]

rpi_gpio_fini(B, psgbe) ==
    IF ~psgbe \/ B.ctx = 0 THEN B
    ELSE [B EXCEPT !.hw = ctrl_inactive \o gpio_write_masks({}, MASK_RESET)
                          \o rpi_gpio_clock_disable,
                   !.ctx = 0, !.enabled = 0]

rpi_gpio_enable(B, psgbe) ==
    IF ~psgbe THEN [B EXCEPT !.ret = 0]
    ELSE IF B.ctx = 0
    THEN [B EXCEPT !.last_error = "enable: ctx is NULL (not initialized?)",
                   !.ret = 0]
    ELSE [B EXCEPT !.enabled = 1, !.ret = 1]

rpi_gpio_disable(B, psgbe) ==
    IF ~psgbe \/ B.ctx = 0 THEN B
    ELSE [B EXCEPT !.hw = (IF B.enabled # 0
                           THEN ym_write_reg_raw(AY_ENABLE, 63)
                                \o ym_write_reg_raw(AY_AVOL, 0)
                                \o ym_write_reg_raw(AY_BVOL, 0)
                                \o ym_write_reg_raw(AY_CVOL, 0)
                           ELSE << >>)
                          \o ctrl_inactive,
                   !.enabled = 0]

rpi_gpio_reset(B, psgbe) ==
    IF ~psgbe THEN [B EXCEPT !.ret = 0]
    ELSE IF B.ctx = 0
    THEN [B EXCEPT !.last_error = "reset: ctx is NULL (not initialized?)",
                   !.ret = 0]
    ELSE IF B.enabled = 0
    THEN [B EXCEPT !.last_error = "reset: backend is disabled", !.ret = 0]
    ELSE [B EXCEPT !.hw = ctrl_inactive \o bus_write8(0) \o ym_reset_pulse,
                   !.ret = 1]

rpi_gpio_write_reg_open(B, psgbe, reg, val) ==
    IF ~psgbe THEN [B EXCEPT !.ret = 0]
    ELSE IF B.ctx = 0
    THEN [B EXCEPT !.last_error = "write_reg: ctx is NULL (not initialized?)",
                   !.ret = 0]
    ELSE [B EXCEPT !.hw = ym_write_reg_raw(reg, val), !.ret = 1]

rpi_gpio_write_reg(B, psgbe, reg, val) ==
    IF ~psgbe THEN [B EXCEPT !.ret = 0]
    ELSE IF B.ctx = 0
    THEN [B EXCEPT !.last_error = "write_reg: ctx is NULL (not initialized?)",
                   !.ret = 0]
    ELSE IF B.enabled = 0
    THEN [B EXCEPT !.last_error = "write_reg: backend is disabled", !.ret = 0]
    ELSE [B EXCEPT !.hw = ym_write_reg_raw(reg, val), !.ret = 1]

NoBackend ==
    [ctx |-> 0, enabled |-> 0, last_error |-> "", dead |-> FALSE,
     life |-> "new", call |-> "none", psgbe |-> TRUE, reg |-> -1, val |-> -1,
     ret |-> -1, hw |-> << >>, pins |-> {}, addr |-> 0, ym |-> << >>]

NoOut == -1
NoCalc == [fn |-> "none", in |-> << >>, out |-> NoOut, done |-> FALSE]

DriverInitial ==
    LET D == psg_driver_init(Enter(psg_main_reset,
                                   [i \in Chans |-> psg_channel_reset(i)], 0))
    IN  /\ main = D.main /\ ch = D.ch /\ op = "init"
        /\ writes = D.w /\ events = D.e /\ cmdlog = D.log /\ trace = D.tr
        /\ fired = 0 /\ oob = FALSE /\ hung = FALSE
        /\ stopped = FALSE /\ nticks = 0 /\ nrounds = 0 /\ tseen = FALSE
        /\ playing = Zero3 /\ age = Zero3 /\ hage = Zero3 /\ ndec = Zero3
        /\ initfrom = "construction"
        /\ avol = [c \in Chans |-> -1]
        /\ jmark = [c \in Chans |-> NoJ]
        /\ lmark = [c \in Chans |-> NoMarks]
        /\ lfoage = [c \in Chans |-> NoLfo]
        /\ ended = [c \in Chans |-> FALSE]
        /\ lastm = [c \in Chans |-> NoM]
        /\ eginit = [c \in Chans |-> FALSE]
        /\ arg = NoArg
        /\ be = NoBackend

Init ==
    /\ DriverInitial
    /\ calc = NoCalc

\* some channel has decoded object data that changed a documented default
Played ==
    \E c \in Chans :
        /\ ch[c].data_offset > 0
        /\ \/ ch[c].octave # 4 \/ ch[c].volume # 12 \/ ch[c].flags # 0
           \/ main.tempo_val # 10 \/ main.reg7_value # 248

DriverInit ==
    /\ Running
    /\ Commit(psg_driver_init(Enter(main, ch, 0)), "init")
    /\ nticks' = 0 /\ nrounds' = 0 /\ tseen' = FALSE
    /\ playing' = Zero3 /\ age' = Zero3 /\ hage' = Zero3 /\ ndec' = Zero3
    /\ initfrom' = IF op = "init" THEN "init"
                   ELSE IF Played THEN "played" ELSE "other"
    /\ arg' = NoArg
    /\ UNCHANGED stopped

\* the call psg_driver_set_channel_data(drv, i, d)
LoadData(i, d) ==
    /\ Commit(psg_driver_set_channel_data(Enter(main, ch, 0), i, d),
              "set_channel_data")
    /\ stopped' = (stopped /\ i \notin Chans)
    /\ playing' = [c \in Chans |-> IF c = i THEN 0 ELSE playing[c]]
    /\ ndec'    = [c \in Chans |-> IF c = i THEN 0 ELSE ndec[c]]
    /\ initfrom' = "none"
    /\ arg' = [idx |-> i, data |-> d]
    /\ UNCHANGED << nticks, nrounds, tseen, age, hage >>

\* the host loads object data before the playback
SetChannelData(Cat, Idx) ==
    \E i \in Idx, d \in Cat :
        /\ Running
        /\ nticks <= LoadWindow
        /\ LoadData(i, d)

\* the host loads object data at any time, also into a channel that plays
Reload(Cat, Idx) ==
    \E i \in Idx, d \in Cat :
        /\ Running
        /\ LoadData(i, d)

Start ==
    /\ Running
    /\ Commit(psg_driver_start(Enter(main, ch, 0)), "start")
    /\ stopped' = FALSE
    /\ playing' = Zero3
    /\ initfrom' = "none"
    /\ arg' = NoArg
    /\ UNCHANGED << nticks, nrounds, tseen, age, hage, ndec >>

Stop ==
    /\ Running
    /\ Commit(psg_driver_stop(Enter(main, ch, 0)), "stop")
    /\ stopped' = TRUE
    /\ playing' = Zero3
    /\ initfrom' = "none"
    /\ arg' = NoArg
    /\ UNCHANGED << nticks, nrounds, tseen, age, hage, ndec >>

Decoded(t) == t.kind \in {"note", "rest"}

\* A call that reads no byte outside a slice does not depend on the byte such
\* a read yields; only a call that does is tried with every byte of Garbage.
TickWith(g) == psg_driver_tick(Enter(main, ch, g))

TickRetry(D0) == IF ~D0.oob THEN {D0} ELSE {TickWith(g) : g \in Garbage}

TickResults == TickRetry(TickWith(0))

Tick(W) ==
    \E D \in TickResults :
        /\ Running
        /\ \A c \in Chans : ch[c].active = 1 => ch[c].wait_counter <= MaxWait
        /\ Commit(D, "tick")
        /\ nticks'  = IF nticks < W THEN nticks + 1 ELSE W
        /\ nrounds' = IF nticks < W - 1 THEN nrounds + D.rounds ELSE 0
        /\ tseen'   = (tseen \/ \E k \in 1 .. Len(D.log) : D.log[k].code = 248)
        /\ playing' = [c \in Chans |->
                         IF Decoded(D.tr[c]) THEN D.tr[c].len
                         ELSE IF D.tr[c].kind \in {"end", "hung"} THEN 0
                         ELSE playing[c]]
        /\ age'     = [c \in Chans |->
                         IF playing'[c] = 0 \/ Decoded(D.tr[c]) THEN 0
                         ELSE IF D.tr[c].kind = "idle" THEN age[c]
                         ELSE age[c] + 1]
        /\ hage'    = [c \in Chans |->
                         IF playing'[c] = 0 \/ Decoded(D.tr[c]) THEN 0
                         ELSE hage[c] + 1]
        /\ ndec'    = [c \in Chans |->
                         IF Decoded(D.tr[c]) /\ ndec[c] < MaxDec THEN ndec[c] + 1
                         ELSE ndec[c]]
        /\ initfrom' = "none"
        /\ arg' = NoArg
        /\ UNCHANGED stopped

(***************************************************************************)
(* Object data the host loads.  Every stream ends with the end mark 0xFF.  *)
(***************************************************************************)
\* o5 v15 C(len 3): the minimal song, with a short note
SongNote == << 133, 159, 33, 3, 255 >>
\* T2 P1 C(len 2) P2 P3 R(len 1)
SongMixer == << 248, 2, 0, 237, 33, 2, 238, 239, 32, 1, 255 >>
\* C(len 1) D(len 1)
SongScale == << 33, 1, 35, 1, 255 >>
\* P1 C(len 1)
SongP1 == << 237, 33, 1, 255 >>
\* P2 W5 D(len 1) P3 W+2 R(len 1)
SongP2 == << 238, 235, 5, 35, 1, 239, 236, 2, 32, 1, 255 >>
\* Q1 S(1,1,1,0,0) M(0,1,1,1) C&(len 2) D(len 3) R(len 2)
SongVoice == << 250, 1, 234, 1, 1, 1, 0, 0, 245, 0, 1, 1, 1, 97, 2, 35, 3, 32, 2, 255 >>
\* T2 W3 E(len 1) P2 T3 G(len 2)
SongTempo == << 248, 2, 0, 235, 3, 37, 1, 238, 248, 3, 0, 40, 2, 255 >>

\* C(L) C#(L+) D(len 5) E(len 258, two bytes) R(len 3, two bytes) C(len 1)
SongLen == << 1, 18, 35, 5, 52, 2, 1, 48, 3, 0, 33, 1, 255 >>
\* T3 L2 L+4 R(L) F(L+) T1 G(len 255) R(len 256, two bytes) A(len 1)
SongLenT == << 248, 3, 0, 249, 2, 247, 4, 0, 22, 248, 1, 0, 40, 255, 48, 0, 1, 42, 1, 255 >>
\* S(3,2,1,0,0) C&(len 8) C(len 8)
SongTie == << 234, 3, 2, 1, 0, 0, 97, 8, 33, 8, 255 >>
\* T1 S(2,1,1,1,1) M(0,1,2,1) D&(len 6) R&(len 2) E&(len 3) F(len 2)
SongTie2 == << 248, 1, 0, 234, 2, 1, 1, 1, 1, 245, 0, 1, 2, 1,
               99, 6, 96, 2, 101, 3, 38, 2, 255 >>
\* [3 C(len 8) ] with the operand 3
SongLoop3 == << 240, 3, 33, 8, 241, 3, 255 >>
\* [3 C(len 8) ] with the displacement -4 (0xFC), back to the C
SongLoopFC == << 240, 3, 33, 8, 241, 252, 255 >>
\* T1 [2 C(len 1) ] with the 16-bit displacement -5 (0xFFFB)
SongLoop16 == << 248, 1, 0, 240, 2, 33, 1, 242, 251, 255, 255 >>

\* T255 C(len 1) T1 D(len 1) T0 E(len 2)
SongT0 == << 248, 255, 0, 33, 1, 248, 1, 0, 35, 1, 248, 0, 0, 37, 2, 255 >>
\* v15 v+15 S(3,1,5,2,1) C&(len 6) C(len 3) v-15 S(-6,1,-1,0,0) C(len 6)
SongVol == << 159, 175, 234, 3, 1, 5, 2, 1, 97, 6, 33, 3,
              191, 234, 250, 1, 255, 0, 0, 33, 6, 255 >>
\* o8 U%15 B(len 1): the table value of B in octave 8 is 15
SongDetune == << 136, 251, 15, 44, 1, 255 >>
\* o6 [2 C(len 1) o2 ](-5) o0 C(len 1) o15 C(len 1)
SongOct0 == << 134, 240, 2, 33, 1, 130, 241, 251, 128, 33, 1, 143, 33, 1, 255 >>
\* C(len 0)
SongLen0 == << 33, 0, 255 >>
\* R(len 48)
SongRest == << 32, 48, 255 >>
\* Q3 S(2,1,1,0,0) M(0,1,1,1) C(len 6) R(len 3) D(len 5)
SongGate == << 250, 3, 234, 2, 1, 1, 0, 0, 245, 0, 1, 1, 1,
               33, 6, 32, 3, 35, 5, 255 >>
\* [1 [1 [1 [1 [9 ] ] ] ] ](5) ](7, two bytes) :(9) C(len 1): the fifth [ and
\* the last three commands are beyond the nest bounds
SongNest == << 240, 1, 240, 1, 240, 1, 240, 1, 240, 9,
               241, 0, 241, 0, 241, 0, 241, 0,
               241, 5, 242, 7, 0, 243, 9, 0, 33, 1, 255 >>
\* L with the operand 0xFF, which is also the last byte
SongShort == << 249, 255 >>
\* J and the end mark at once
SongJ == << 254, 255 >>
\* o5 C(len 1) J D(len 1) o7: the end mark returns to the D for ever
SongJLoop == << 133, 33, 1, 254, 35, 1, 135, 255 >>
\* W10 W-1 C(len 1) W+3 D(len 1)
SongNoise == << 235, 10, 236, 3, 33, 1, 236, 255, 35, 1, 255 >>

\* T1 Q1 S(1,1,1,0,0) C&(len 2) D(len 2)
SongRA == << 248, 1, 0, 250, 1, 234, 1, 1, 1, 0, 0, 97, 2, 35, 2, 255 >>
\* T1 o7 J E(len 1): the end mark returns to the E
SongRB == << 248, 1, 0, 135, 254, 37, 1, 255 >>
\* the opcodes 0xC0..0xD4, none of them a command, then C(len 1)
SongUnkLo == << 192, 193, 194, 195, 196, 197, 198, 199, 200, 201, 202, 203,
                204, 205, 206, 207, 208, 209, 210, 211, 212, 33, 1, 255 >>
\* the opcodes 0xD5..0xE9, then N and D(len 1)
SongUnkHi == << 213, 214, 215, 216, 217, 218, 219, 220, 221, 222, 223, 224,
                225, 226, 227, 228, 229, 230, 231, 232, 233, 246, 35, 1, 255 >>
\* T10 with the port byte 0xFF, C(len 1), T3 D(len 1)
SongTPort == << 248, 10, 255, 33, 1, 248, 3, 7, 35, 1, 255 >>

\* U%5 U-10 C(len 1) U%(-3) U+5 D(len 1) U%(-0) U-128 E(len 1) U+100 F(len 1)
SongU == << 251, 5, 252, 246, 33, 1, 251, 131, 252, 5, 35, 1,
            251, 128, 252, 128, 37, 1, 252, 100, 38, 1, 255 >>
\* S(3,1,1,0,0) C(len 4) D&(len 1) E(len 2): the envelope has raised the C by
\* three steps when the tied D begins
SongStale == << 234, 3, 1, 1, 0, 0, 33, 4, 99, 1, 37, 2, 255 >>
\* Q3 C(len 2) Q1 D(len 3) Q0 E(len 2) Q2 F&(len 3) G(len 1): gates of len-1
\* (clamped), 1, none, none (tie), none (clamped to 0)
SongGate2 == << 250, 3, 33, 2, 250, 1, 35, 3, 250, 0, 37, 2,
                250, 2, 102, 3, 40, 1, 255 >>
\* T1 [n C(len 1) ] D(len 1), the ] with the one-byte displacement -4 (0xFC)
\* or the two-byte displacement -5 (0xFFFB) back to the C
LoopShort(n) == << 248, 1, 0, 240, n, 33, 1, 241, 252, 35, 1, 255 >>
LoopLong(n) == << 248, 1, 0, 240, n, 33, 1, 242, 251, 255, 35, 1, 255 >>
\* T1 [n C(len 1) :(+4) D(len 1) ](-9) E(len 1): the : goes to the E
BreakSong(n) == << 248, 1, 0, 240, n, 33, 1, 243, 4, 0, 35, 1, 241, 247, 37, 1, 255 >>
\* T1 o5 L10 L+20 [3 C(len 1) o2 L7 L+9 ](-9) D(len 1)
SongNestA == << 248, 1, 0, 133, 249, 10, 247, 20, 240, 3, 33, 1,
                130, 249, 7, 247, 9, 241, 247, 35, 1, 255 >>
\* o5 L10 L+20 [2 o3 L7 L+9 [1 ](-2) ](-11) C(len 1): a loop is entered and
\* left inside the body of the outer loop
SongNestB == << 133, 249, 10, 247, 20, 240, 2, 131, 249, 7, 247, 9,
                240, 1, 241, 254, 241, 245, 33, 1, 255 >>
\* T1 o5 [2 o6 [2 o7 [2 o8 [2 o1 C(len 1) ](-5) ](-10) ](-15) ](-20) D(len 1)
SongNest4 == << 248, 1, 0, 133, 240, 2, 134, 240, 2, 135, 240, 2, 136, 240, 2,
                129, 33, 1, 241, 251, 241, 246, 241, 241, 241, 236,
                35, 1, 255 >>
\* T1 v5 S(3,2,1,2,1) C(len 12) D&(len 3) E(len 4)
SongEgA == << 248, 1, 0, 149, 234, 3, 2, 1, 2, 1, 33, 12, 99, 3, 37, 4, 255 >>
\* T1 S(2,1,2,0,0) C(len 5) C(len 3): no second stage width
SongEgB == << 248, 1, 0, 234, 2, 1, 2, 0, 0, 33, 5, 33, 3, 255 >>
\* T1 v12 S(-4,1,-2,-3,0x83) C(len 10): a falling envelope
SongEgC == << 248, 1, 0, 156, 234, 252, 1, 254, 253, 131, 33, 10, 255 >>
\* T1 S(1,0,1,1,1) C(len 3): the count 0
SongEgD == << 248, 1, 0, 234, 1, 0, 1, 1, 1, 33, 3, 255 >>
\* T1 S(3,1,2,0,0) C(len 70): the step 2 does not divide the width 3
SongEgE == << 248, 1, 0, 234, 3, 1, 2, 0, 0, 33, 70, 255 >>
\* T1 S(1,1,1,1,1) C&(len 4) D(len 3) E(len 2): the D is tied to the C
SongEgT == << 248, 1, 0, 234, 1, 1, 1, 1, 1, 97, 4, 35, 3, 37, 2, 255 >>
\* T1 S(1,1,1,0,0) C(len 4) S(0) D(len 2) S(1,1,1,0,0) E(len 2)
SongEgZ == << 248, 1, 0, 234, 1, 1, 1, 0, 0, 33, 4, 234, 0, 35, 2,
              234, 1, 1, 1, 0, 0, 37, 2, 255 >>
\* T1 S(1,1,1,1,1) C(len 22): the second stage goes beyond 15 steps
SongEgCap == << 248, 1, 0, 234, 1, 1, 1, 1, 1, 33, 22, 255 >>
\* T1 v15 S(1,1,1,1,0x81) C(len 22): the same, falling
SongEgCapN == << 248, 1, 0, 159, 234, 1, 1, 1, 1, 129, 33, 22, 255 >>
\* T1 S(100,1,100,100,1) C(len 4): widths whose sum exceeds 127
SongEgWrap == << 248, 1, 0, 234, 100, 1, 100, 100, 1, 33, 4, 255 >>
\* T1 M(2,3,2,1) C(len 20): a wait of 2, a step every third tick
SongLfoA == << 248, 1, 0, 245, 2, 3, 2, 1, 33, 20, 255 >>
\* T1 M(0,0,1,-3) C(len 8) D&(len 3) E(len 4): the count 0, a falling start
SongLfoB == << 248, 1, 0, 245, 0, 0, 1, 131, 33, 8, 99, 3, 37, 4, 255 >>
\* T1 o8 M(0,1,0,127) B(len 4): no turn, down to the period 1
SongLfoC == << 248, 1, 0, 136, 245, 0, 1, 0, 127, 44, 4, 255 >>
\* T1 o1 M(0,1,0,-127) C(len 8): no turn, up to the period 0xFFF
SongLfoD == << 248, 1, 0, 129, 245, 0, 1, 0, 255, 33, 8, 255 >>
\* T1 C&(len 2) M%5 D(len 5): the LFO is switched on by M% before a tied
\* note, and no M was executed
SongLfoE == << 248, 1, 0, 97, 2, 253, 5, 35, 5, 255 >>
\* T1 M(0,3,1,1) C(len 5) M%0 D(len 3) M%2 E&(len 5) F(len 3)
SongLfoF == << 248, 1, 0, 245, 0, 3, 1, 1, 33, 5, 253, 0, 35, 3,
               253, 2, 101, 5, 38, 3, 255 >>
\* T1 Q2 M(0,1,3,1) C(len 6) R(len 2) D&(len 4) E(len 4)
SongLfoG == << 248, 1, 0, 250, 2, 245, 0, 1, 3, 1, 33, 6, 32, 2, 99, 4,
               37, 4, 255 >>
\* T1 M(0,1,2,2) C(len 12): a first swing of 2 steps, then swings of 4
SongLfoH == << 248, 1, 0, 245, 0, 1, 2, 2, 33, 12, 255 >>

Songs     == { SongNote, SongMixer }
LfoSongs == { SongLfoA, SongLfoB, SongLfoC, SongLfoD, SongLfoE, SongLfoF,
              SongLfoG, SongLfoH }
EgSongs == { SongEgA, SongEgB, SongEgC, SongEgD, SongEgE, SongEgT, SongEgZ,
             SongEgCap, SongEgCapN, SongEgWrap }
ModSongs == EgSongs \cup LfoSongs
NestSongs == { SongNestA, SongNestB, SongNest4 }
BreakCounts == (1 .. 5) \cup { 255 }
BreakSongs == { BreakSong(n) : n \in BreakCounts }
LoopCounts == (1 .. 9) \cup { 128, 254, 255 }
LoopSongs == { LoopShort(n) : n \in LoopCounts } \cup { LoopLong(n) : n \in { 1, 2, 255 } }
CalcSongs == { SongT0, SongTPort, SongU }
ReloadSongs == { SongRA, SongRB }
TempoSongs == { SongScale, SongMixer }
PlaySongs == { SongP1, SongP2, SongVoice, SongTempo }
EdgeSongs == { SongT0, SongVol, SongDetune, SongOct0, SongLen0, SongRest,
               SongGate, SongNest, SongShort, SongJ, SongJLoop, SongNoise,
               SongUnkLo, SongUnkHi, SongStale, SongGate2 }
SoloSongs == { SongLen, SongLenT, SongTie, SongTie2, SongLoop3, SongLoopFC, SongLoop16 }

(***************************************************************************)
(* Specifications.                                                         *)
(*   Spec       the host calls the five entry points in any order          *)
(*   SpecPlay   playback of three channels: init, load, tick               *)
(*   SpecSolo   playback of channel A alone, with longer object data       *)
(*   SpecTempo  as Spec without stop/start; counts the first Window ticks  *)
(*   SpecEdge   playback of channel A alone, object data with operands at  *)
(*              the ends of their ranges                                   *)
(*   SpecReload the host loads object data into channel A, or with a       *)
(*              channel index out of range, at any time of the playback    *)
(*   SpecCalc   the arithmetic of the driver: a function is applied to     *)
(*              arguments drawn from its whole domain, or object data      *)
(*              whose commands use the functions is played on channel A    *)
(*   SpecLoad   p6psg_load is applied to a file                            *)
(*   SpecMod    playback of channel A alone, object data with software    *)
(*              envelopes and LFOs                                         *)
(*   SpecLoop   playback of channel A alone, loops with counts from 1 to   *)
(*              255                                                        *)
(***************************************************************************)
Next ==
    \/ DriverInit
    \/ SetChannelData(Songs, -1 .. 3)
    \/ Start
    \/ Stop
    \/ Tick(LoadWindow + 1)

Spec == Init /\ [][Next]_vars

NextPlay ==
    \/ DriverInit
    \/ SetChannelData(PlaySongs, Chans)
    \/ Tick(LoadWindow + 1)

SpecPlay == Init /\ [][NextPlay]_vars

NextSolo ==
    \/ DriverInit
    \/ SetChannelData(SoloSongs, {0})
    \/ Tick(LoadWindow + 1)

SpecSolo == Init /\ [][NextSolo]_vars

NextTempo ==
    \/ DriverInit
    \/ SetChannelData(TempoSongs, Chans)
    \/ Tick(Window)

SpecTempo == Init /\ [][NextTempo]_vars

NextEdge ==
    \/ DriverInit
    \/ SetChannelData(EdgeSongs, { 0 })
    \/ Tick(LoadWindow + 1)

SpecEdge == Init /\ [][NextEdge]_vars

NextReload ==
    \/ DriverInit
    \/ Reload(ReloadSongs, { -1, 0, 3 })
    \/ Tick(LoadWindow + 1)

SpecReload == Init /\ [][NextReload]_vars

NextLoop ==
    \/ DriverInit
    \/ SetChannelData(LoopSongs \cup BreakSongs \cup NestSongs, { 0 })
    \/ Tick(LoadWindow + 1)

SpecLoop == Init /\ [][NextLoop]_vars

NextMod ==
    \/ DriverInit
    \/ SetChannelData(ModSongs, { 0 })
    \/ Tick(LoadWindow + 1)

SpecMod == Init /\ [][NextMod]_vars

\* the values of a uint8_t, and those of its low four bits (an octave
\* command and a note byte carry the octave and the note in four bits)
Bytes == 0 .. 255
Nibbles == 0 .. 15

\* the arguments the functions are applied to
CalcInputs ==
    { [fn |-> "psg_calc_tone", in |-> << o, n >>, out |-> NoOut, done |-> FALSE] :
          o \in Nibbles, n \in Nibbles }
    \cup
    { [fn |-> "calc_bpm_x10_from_t96", in |-> << t96 >>, out |-> NoOut, done |-> FALSE] :
          t96 \in Bytes }
    \cup
    { [fn |-> "cmd_Urel_detune", in |-> << detune, d >>, out |-> NoOut, done |-> FALSE] :
          detune \in Bytes, d \in Bytes }

InitCalc ==
    /\ DriverInitial
    /\ calc \in CalcInputs \cup { NoCalc }

Apply(fn, result) ==
    /\ calc.fn = fn
    /\ ~calc.done
    /\ calc' = [calc EXCEPT !.out = result, !.done = TRUE]
    /\ UNCHANGED << main, ch, op, writes, events, cmdlog, trace, fired, oob,
                    hung, stopped, nticks, nrounds, tseen, playing, age, hage,
                    ndec, initfrom, avol, jmark, lmark, lfoage, ended, lastm,
                    eginit, arg, be >>

CalcTone == Apply("psg_calc_tone", psg_calc_tone(calc.in[1], calc.in[2]))

CalcBpm == Apply("calc_bpm_x10_from_t96", calc_bpm_x10_from_t96(calc.in[1]))

CalcDetune == Apply("cmd_Urel_detune", cmd_Urel_detune(calc.in[1], calc.in[2]))

\* the functions alone, or the playback of object data whose commands use them
NextCalc ==
    \/ CalcTone
    \/ CalcBpm
    \/ CalcDetune
    \/ calc = NoCalc /\ DriverInit
    \/ calc = NoCalc /\ SetChannelData(CalcSongs, { 0 })
    \/ calc = NoCalc /\ Tick(LoadWindow + 1)

SpecCalc == InitCalc /\ [][NextCalc]_vars

(***************************************************************************)
(* p6psg_load: reading a data file and splitting it into the three         *)
(* channel slices.  file is the content of the file, io_ok tells whether   *)
(* all of fopen, fseek, ftell, malloc and fread succeeded, channels is     *)
(* what *channels held before the call.  A slice is given by the offset    *)
(* of its first byte in the buffer (ptr) and its length (len).             *)
(***************************************************************************)
\* a little-endian 16-bit address at the 0-based offset k of the buffer
p6psg_addr(buf, k) == buf[k + 2] * 256 + buf[k + 1]

p6psg_load(file, io_ok, channels) ==
    LET p6size == Len(file)
        fail   == [ret |-> 0, channels |-> channels]
    IN  IF ~io_ok THEN fail
        ELSE IF p6size < 8 + 3 THEN fail
        ELSE IF p6size >= 65536 THEN fail
        ELSE
          LET a_addr == p6psg_addr(file, 0)
              b_addr == p6psg_addr(file, 2)
              c_addr == p6psg_addr(file, 4)
          IN  IF c_addr > p6size \/ b_addr >= c_addr \/ a_addr >= b_addr
                 \/ a_addr < 8
              THEN fail
              ELSE
                LET a_size == U16(b_addr - a_addr)
                    b_size == U16(c_addr - b_addr)
                    c_size == U16(p6size - c_addr)
                IN  IF \/ file[(a_addr + a_size - 1) + 1] # 255
                       \/ file[(b_addr + b_size - 1) + 1] # 255
                       \/ file[(c_addr + c_size - 1) + 1] # 255
                    THEN fail
                    ELSE [ret |-> 1,
                          channels |-> << [ptr |-> a_addr, len |-> a_size],
                                          [ptr |-> b_addr, len |-> b_size],
                                          [ptr |-> c_addr, len |-> c_size] >>]

\* length of the longest file tried, and the largest low byte of an address
MaxFile == 12
MaxAddr == 13

\* *channels before the call
NoChannels == << [ptr |-> -1, len |-> 0], [ptr |-> -1, len |-> 0],
                 [ptr |-> -1, len |-> 0] >>

\* object data of n bytes, each a note byte or the end mark
RECURSIVE DataBytes(_)
DataBytes(n) ==
    IF n = 0 THEN { << >> }
    ELSE { Append(d, x) : d \in DataBytes(n - 1), x \in { 33, 255 } }

\* files of 10..MaxFile bytes: three addresses (the third with a high byte
\* of 0 or 1), two more header bytes, object data
Files ==
    { << a, 0, b, 0, c, ch_, 0, 0 >> \o d :
         a \in 7 .. MaxAddr, b \in 7 .. MaxAddr, c \in 7 .. MaxAddr,
         ch_ \in { 0, 1 },
         d \in UNION { DataBytes(n) : n \in 2 .. MaxFile - 8 } }

LoadInputs ==
    { [fn |-> "p6psg_load", in |-> << f, TRUE >>, out |-> NoOut, done |-> FALSE] : f \in Files }
    \cup
    { [fn |-> "p6psg_load", in |-> << f, FALSE >>, out |-> NoOut, done |-> FALSE] :
         f \in { << 8, 0, 9, 0, 10, 0, 0, 0, 255, 255, 255 >> } }

InitLoad ==
    /\ DriverInitial
    /\ calc \in LoadInputs

P6psgLoad ==
    Apply("p6psg_load", p6psg_load(calc.in[1], calc.in[2], NoChannels))

NextLoad == P6psgLoad

SpecLoad == InitLoad /\ [][NextLoad]_vars

(***************************************************************************)
(* Calls of the GPIO backend.  The host owns the psg_backend_t and zeroes  *)
(* it before the first call (ctx = NULL, last_error empty); psgbe tells    *)
(* whether the call passes the object or NULL.  life tells whether init    *)
(* has succeeded ("init") and whether fini has run since ("fini").         *)
(***************************************************************************)
GpioRegs == { 7, 10, 23 }
GpioVals == { 0, 165 }

BeCall(R, name, psgbe, reg, val) ==
    /\ ~be.dead
    /\ be' = [R EXCEPT !.call = name, !.psgbe = psgbe,
                       !.reg = reg, !.val = val,
                       !.life = IF name = "init" /\ R.ret = 1 THEN "init"
                                ELSE IF name = "fini" /\ psgbe /\ be.ctx = 1
                                THEN "fini" ELSE @,
                       !.pins = PinsAt(R.hw, be.pins, Len(R.hw)),
                       !.addr = AddrAt(R.hw, be.pins, be.addr, Len(R.hw)),
                       !.ym = YmEvents(R.hw, be.pins, be.addr)]
    /\ UNCHANGED DriverVars

BeEnter == [be EXCEPT !.ret = -1, !.hw = << >>, !.ym = << >>]

GpioInit ==
    \E psgbe \in BOOLEAN, io \in InitOutcomes :
        BeCall(rpi_gpio_init(BeEnter, psgbe, io), "init", psgbe, -1, -1)

GpioFini ==
    \E psgbe \in BOOLEAN :
        BeCall(rpi_gpio_fini(BeEnter, psgbe), "fini", psgbe, -1, -1)

GpioEnable ==
    \E psgbe \in BOOLEAN :
        BeCall(rpi_gpio_enable(BeEnter, psgbe), "enable", psgbe, -1, -1)

GpioDisable ==
    \E psgbe \in BOOLEAN :
        BeCall(rpi_gpio_disable(BeEnter, psgbe), "disable", psgbe, -1, -1)

GpioReset ==
    \E psgbe \in BOOLEAN :
        BeCall(rpi_gpio_reset(BeEnter, psgbe), "reset", psgbe, -1, -1)

GpioWriteReg ==
    \E psgbe \in BOOLEAN, reg \in GpioRegs, val \in GpioVals :
        BeCall(rpi_gpio_write_reg(BeEnter, psgbe, reg, val),
               "write_reg", psgbe, reg, val)

NextGpio ==
    \/ GpioInit
    \/ GpioFini
    \/ GpioEnable
    \/ GpioDisable
    \/ GpioReset
    \/ GpioWriteReg

SpecGpio == Init /\ [][NextGpio]_vars

(***************************************************************************)
(* Properties                                                              *)
(***************************************************************************)
WritesBy(c)  == SelectSeq(writes, LAMBDA x : x.by = c)
WritesBy1(c) == SelectSeq(writes', LAMBDA x : x.by = c)
EventsOf(c)  == SelectSeq(events, LAMBDA x : x.ch = c)
EventsOf1(c) == SelectSeq(events', LAMBDA x : x.ch = c)

\* the channels appear in a sequence of channel numbers in the order A, B, C
InChannelOrder(s) == \A k \in 1 .. Len(s) - 1 : s[k] <= s[k + 1]

\* C1: psg_driver_tick pre-decrements tempo_counter; exactly when it reaches 0
\* it runs one round of channel ticks, A then B then C (no write, event or
\* command of a later channel before one of an earlier channel), and then
\* reloads tempo_counter from tempo_val; otherwise nothing but tempo_counter
\* changes.  Hence, while no T command was executed since the init, the first
\* k calls run exactly k \div 10 rounds.
C1_TempoDivider ==
    [][ op' = "tick" =>
          /\ fired' = (IF U8(main.tempo_counter - 1) = 0 THEN 1 ELSE 0)
          /\ fired' = 0 =>
                /\ main' = [main EXCEPT !.tempo_counter = U8(@ - 1)]
                /\ ch' = ch /\ writes' = << >> /\ events' = << >>
          /\ fired' = 1 =>
                /\ main'.tempo_counter = main'.tempo_val
                /\ \A c \in Chans : ch[c].active = 1 => trace'[c].kind # "idle"
          /\ InChannelOrder([k \in 1 .. Len(writes') |-> writes'[k].by])
          /\ InChannelOrder([k \in 1 .. Len(events') |-> events'[k].ch])
          /\ InChannelOrder([k \in 1 .. Len(cmdlog') |-> cmdlog'[k].by])
          /\ (~tseen' /\ nticks' < Window) => nrounds' = nticks' \div 10
      ]_vars

\* C1 witness: the 20th call after an init without T command ran the second
\* round, in which two channels issued register writes
C1_Witness ==
    /\ op = "tick" /\ ~tseen /\ nticks = 20 /\ nrounds = 2 /\ fired = 1
    /\ \E a, b \in Chans : a < b /\ WritesBy(a) # << >> /\ WritesBy(b) # << >>

\* the length the object decoded by trace record t encodes: L default, L+
\* default, one inline byte, or two inline bytes, low byte first
EncodedLen(t) ==
    LET c == t.at
        f == (t.code \div 16) % 4
        b(k) == c.data_base[c.data_offset + k]
    IN  IF f = 0 THEN c.l_default
        ELSE IF f = 1 THEN c.lplus_default
        ELSE IF f = 2 THEN b(1)
        ELSE b(1) + 256 * b(2)

\* C2: a note or rest decoded with length len >= 1 occupies its channel for
\* exactly len channel ticks: the channel decodes its next object (or its end
\* mark) on the len-th channel tick after that decode and not before, which
\* is len * tempo_val psg_driver_tick calls after it; len is the length the
\* object encodes (L, L+, one byte, two bytes little-endian).
C2_NoteLength ==
    [][ op' = "tick" =>
          \A c \in Chans :
            /\ (playing[c] # 0 /\ trace'[c].kind \in {"note", "rest", "end"}) =>
                  /\ age[c] + 1 = playing[c]
                  /\ hage[c] + 1 = playing[c] * main.tempo_val
            /\ (playing[c] # 0 /\ trace'[c].kind \in {"resting", "gateoff", "sounding"}) =>
                  age[c] + 1 < playing[c]
            /\ (Decoded(trace'[c]) /\ ~oob') =>
                  /\ trace'[c].len = EncodedLen(trace'[c])
                  /\ ch'[c].wait_counter = trace'[c].len
      ]_vars

\* C2 witness: SongLen was played to its end mark: notes of all four length
\* encodings, one of 258 ticks, were each followed by the next decode
C2_Witness ==
    /\ op = "tick" /\ ch[0].data_base = SongLen /\ trace[0].kind = "end"
    /\ ndec[0] = 6 /\ ch[0].data_offset = Len(SongLen)

\* channel c started a non-rest note in the last call, not tied to the
\* object before it
UntiedNoteStart(c) ==
    trace[c].kind = "note" /\ ~HasBit(trace[c].at.flags, CH_F_TIE)

Wr(c, reg, val) == [by |-> c, reg |-> reg, val |-> val]

\* C3 as stated: at every non-rest, non-tied note start the first three
\* register writes channel ch issues in that channel tick are AVOL+ch=0,
\* AFINE+2ch, ACOARSE+2ch, followed by a write AVOL+ch=volume.
C3_MuteFirstOfAllWrites ==
    \A c \in Chans :
        UntiedNoteStart(c) =>
            LET w == WritesBy(c) IN
            /\ Len(w) >= 4
            /\ w[1] = Wr(c, AY_AVOL + c, 0)
            /\ w[2].reg = AY_AFINE + 2 * c
            /\ w[3].reg = AY_ACOARSE + 2 * c
            /\ \E k \in 4 .. Len(w) : w[k] = Wr(c, AY_AVOL + c, ch[c].volume)

\* C3 (amended): at every non-rest, non-tied note start the writes channel ch
\* issues to its own registers in that channel tick are exactly AVOL+ch=0,
\* AFINE+2ch = low byte of the period, ACOARSE+2ch = its bits 8..11,
\* AVOL+ch=volume, in that order; any write it issues before them in the same
\* tick comes from a W, W+/- or P command and goes to the shared register 6
\* or 7.
C3_MuteFirstOfOwnWrites ==
    \A c \in Chans :
        UntiedNoteStart(c) =>
            LET w   == WritesBy(c)
                n   == Len(w)
                own == SelectSeq(w, LAMBDA x : x.reg \notin {AY_NOISEPER, AY_ENABLE})
            IN  /\ n >= 4
                /\ own = SubSeq(w, n - 3, n)
                /\ own[1] = Wr(c, AY_AVOL + c, 0)
                /\ own[2] = Wr(c, AY_AFINE + 2 * c, ch[c].freq_value % 256)
                /\ own[3] = Wr(c, AY_ACOARSE + 2 * c, (ch[c].freq_value \div 256) % 16)
                /\ own[4] = Wr(c, AY_AVOL + c, ch[c].volume)

\* C3 witness: a non-tied note start in a tick whose decode loop first wrote
\* the mixer register
C3_Witness ==
    \E c \in Chans :
        /\ UntiedNoteStart(c)
        /\ Len(WritesBy(c)) = 5
        /\ WritesBy(c)[1].reg = AY_ENABLE
        /\ ch[c].freq_value > 255

\* C5: a call sends exactly one note event for each note or rest object a
\* channel decoded in it, carrying the channel index, the octave, the pitch (0
\* for a rest), the base volume, the decoded length, is_rest and the bpm_x10
\* current at that moment, and no note event for a channel whose tick left
\* wait_counter above 0, found its end mark or did not run.
C5_OneEventPerDecode ==
    [][ /\ op' # "tick" => events' = << >>
        /\ op' = "tick" =>
             \A c \in Chans :
               LET ev   == EventsOf1(c)
                   t    == trace'[c]
                   done == { k \in 1 .. Len(cmdlog') : cmdlog'[k].by <= c }
                   last == CHOOSE k \in done : \A j \in done : j <= k
                   bpm  == IF done = {} THEN main.bpm_x10
                           ELSE cmdlog'[last].post_main.bpm_x10
               IN  IF Decoded(t)
                   THEN /\ Len(ev) = 1
                        /\ ev[1] = [ch |-> c, octave |-> ch'[c].octave,
                                    note |-> t.code % 16,
                                    volume |-> ch'[c].volume,
                                    len |-> ch'[c].wait_counter,
                                    is_rest |-> IF t.code % 16 = 0 THEN 1 ELSE 0,
                                    bpm_x10 |-> bpm]
                        /\ (t.kind = "rest") = (t.code % 16 = 0)
                   ELSE ev = << >>
      ]_vars

\* C5 witness: in one call a channel decoded a note (one event) while another
\* channel ran an envelope or LFO step that wrote a register (no event), and
\* a rest was decoded
C5_Witness ==
    /\ op = "tick"
    /\ \E a, b \in Chans :
          /\ Decoded(trace[a]) /\ Len(EventsOf(a)) = 1
          /\ trace[b].kind = "sounding" /\ WritesBy(b) # << >>
          /\ EventsOf(b) = << >>

\* channel c decoded a non-rest note in the last call and the object before
\* it had its TIE bit set
TiedNoteStart(c) ==
    trace[c].kind = "note" /\ HasBit(trace[c].at.flags, CH_F_TIE)

EgWork(c) == << c.eg_count_work, c.eg_width_work, HasBit(c.flags, CH_F_PSG_EG) >>

\* C4: when a non-rest note is decoded after an object with the TIE bit, no
\* write AVOL+ch=0 comes before the tone register writes of that tick (the
\* note writes AFINE, ACOARSE, then AVOL only), and eg_count_work,
\* eg_width_work and the stage-2 flag are what they were before the note; the
\* second note of 0xEA,3,2,1,0,0,0x61,8,0x21,8,0xFF is such a note.
C4_TiedNoteKeepsEnvelope ==
    \A c \in Chans :
        TiedNoteStart(c) =>
            LET w == WritesBy(c) IN
            /\ Len(w) >= 3
            /\ \A k \in 1 .. Len(w) :
                  w[k].reg = AY_AFINE + 2 * c =>
                     \A j \in 1 .. k - 1 : w[j].reg # AY_AVOL + c
            /\ \E k \in 1 .. Len(w) - 2 :
                  /\ w[k].reg = AY_AFINE + 2 * c
                  /\ w[k + 1].reg = AY_ACOARSE + 2 * c
                  /\ w[k + 2].reg = AY_AVOL + c
            /\ EgWork(ch[c]) = EgWork(trace[c].at)
            /\ (ch[c].data_base = SongTie /\ ndec[c] = 2) =>
                  (trace[c].code = 33 /\ w[1].reg = AY_AFINE + 2 * c)

\* C4 witness: the second note of the stream of the claim was decoded while
\* the envelope work differed from what a note start initialises it to
C4_Witness ==
    /\ ch[0].data_base = SongTie
    /\ TiedNoteStart(0)
    /\ ndec[0] = 2
    /\ ch[0].eg_width_base # 0
    /\ << ch[0].eg_count_work, ch[0].eg_width_work >> # << ch[0].eg_count_base, 0 >>

PCodes == { 237, 238, 239 }

Bit(x, b) == HasBit(x, Pow2(b))

\* C6: a P1/P2/P3 command executed by channel ch leaves every bit of the
\* register 7 shadow other than ch and ch+3 as it was, whatever was executed
\* before it, and issues exactly one register write, to register 7, of the new
\* shadow value.
C6_MixerBitsIndependent ==
    \A k \in 1 .. Len(cmdlog) :
        LET e == cmdlog[k] IN
        e.code \in PCodes =>
            /\ \A b \in 0 .. 7 :
                  b \notin { e.by, e.by + 3 } =>
                     Bit(e.post_main.reg7_value, b) = Bit(e.pre_main.reg7_value, b)
            /\ e.nw1 = e.nw0 + 1
            /\ e.nw1 <= Len(writes)
            /\ writes[e.nw1] = Wr(e.by, AY_ENABLE, e.post_main.reg7_value)
            /\ e.post_main = [e.pre_main EXCEPT !.reg7_value = e.post_main.reg7_value]

\* C6 witness: a channel other than the first executed a P command that
\* changed a shadow another channel had already changed
C6_Witness ==
    \E k \in 1 .. Len(cmdlog) :
        /\ cmdlog[k].code \in PCodes
        /\ cmdlog[k].by > 0
        /\ cmdlog[k].pre_main.reg7_value # 248
        /\ cmdlog[k].post_main.reg7_value # cmdlog[k].pre_main.reg7_value
        /\ \E b \in 0 .. 5 : b \notin { cmdlog[k].by, cmdlog[k].by + 3 }
                             /\ Bit(cmdlog[k].pre_main.reg7_value, b) # Bit(248, b)

\* channel 0 and then channel 1 executed 0xED in the last call, channel 0
\* starting from the default shadow 0xF8; j and k are their log entries
BothP1(j, k) ==
    /\ j < k
    /\ cmdlog[j].code = 237 /\ cmdlog[j].by = 0
    /\ cmdlog[j].pre_main.reg7_value = 248
    /\ cmdlog[k].code = 237 /\ cmdlog[k].by = 1
    /\ cmdlog[k].pre_main.reg7_value = cmdlog[j].post_main.reg7_value

OneReg7Write(e) ==
    /\ e.nw1 = e.nw0 + 1
    /\ writes[e.nw1] = Wr(e.by, AY_ENABLE, e.post_main.reg7_value)

\* C7 as stated: from the default shadow 0xF8, 0xED on channel 0 gives 0xF9
\* and 0xED on channel 1 then gives 0xFB, one register 7 write per command.
C7_P1SetsBothBits ==
    \A j, k \in 1 .. Len(cmdlog) :
        BothP1(j, k) =>
            /\ cmdlog[j].post_main.reg7_value = 249
            /\ cmdlog[k].post_main.reg7_value = 251
            /\ OneReg7Write(cmdlog[j]) /\ OneReg7Write(cmdlog[k])

\* C7 (amended): 0xED has bit 0 set and bit 1 clear, so it enables the tone of
\* its channel (clears bit ch) and disables its noise (sets bit ch+3): from
\* the default shadow 0xF8, 0xED on channel 0 leaves the shadow 0xF8 and 0xED
\* on channel 1 then leaves it 0xF8 again, with exactly one write of 0xF8 to
\* register 7 per command.
C7_P1EnablesTone ==
    /\ \A j, k \in 1 .. Len(cmdlog) :
          BothP1(j, k) =>
             /\ cmdlog[j].post_main.reg7_value = 248
             /\ cmdlog[k].post_main.reg7_value = 248
             /\ OneReg7Write(cmdlog[j]) /\ OneReg7Write(cmdlog[k])
    /\ \A k \in 1 .. Len(cmdlog) :
          cmdlog[k].code = 237 =>
             /\ ~Bit(cmdlog[k].post_main.reg7_value, cmdlog[k].by)
             /\ Bit(cmdlog[k].post_main.reg7_value, cmdlog[k].by + 3)

\* C7 witness: both channels executed 0xED in one call, from the default
\* shadow
C7_Witness ==
    /\ op = "tick"
    /\ \E j, k \in 1 .. Len(cmdlog) : BothP1(j, k)

\* what the claim expects of a three-pass loop around one C of length 8 in
\* the 7-byte stream song, played by channel A
ThreePasses(song) ==
    ch[0].data_base = song =>
        /\ ~oob /\ ~hung
        /\ ch[0].data_offset <= Len(song)
        /\ ndec[0] <= 3
        /\ Decoded(trace[0]) => (trace[0].code = 33 /\ trace[0].len = 8)
        /\ ch[0].active = 0 => (ndec[0] = 3 /\ ch[0].data_offset = Len(song))
        /\ trace[0].kind = "end" => ch[0].active = 0

\* C8 as stated: in the stream 0xF0,3,0x21,8,0xF1,3,0xFF the note is decoded
\* exactly 3 times, then the channel finds the end mark and becomes inactive,
\* and the cursor never leaves the stream.
C8_LoopOperand3 == ThreePasses(SongLoop3)

\* C8 (amended): the short-form ] operand is the low byte of a negative
\* 16-bit displacement (operand | 0xFF00) added to the cursor after the
\* operand, so 3 bytes back to the note is -4 = 0xFC: in the stream
\* 0xF0,3,0x21,8,0xF1,0xFC,0xFF the note is decoded exactly 3 times, every
\* time with length 8, then the channel finds the end mark and becomes
\* inactive, and the cursor never leaves the stream.  With the operand 3 the
\* first ] moves the cursor to 6 + 0xFF03 = 65289, outside the stream.
C8_LoopOperandFC ==
    /\ ThreePasses(SongLoopFC)
    /\ \A k \in 1 .. Len(cmdlog) :
          (cmdlog[k].code = 241 /\ cmdlog[k].pre.data_base = SongLoop3) =>
              cmdlog[k].post.data_offset = 65289

\* C8 witness: the amended stream has ended after three decodes
C8_Witness ==
    /\ ch[0].data_base = SongLoopFC
    /\ trace[0].kind = "end"
    /\ ndec[0] = 3
    /\ ch[0].active = 0
    /\ ch[0].data_offset = 7

StopWrites == << Wr(3, AY_AVOL, 0), Wr(3, AY_AVOL + 1, 0), Wr(3, AY_AVOL + 2, 0) >>

\* C9: psg_driver_stop issues the writes AVOL+0=0, AVOL+1=0, AVOL+2=0 and
\* leaves all three channels inactive; from then until psg_driver_start or
\* psg_driver_set_channel_data is called, a psg_driver_tick issues no register
\* write and no note event and changes no field of any channel.
C9_StopSilences ==
    [][ /\ op' = "stop" =>
              /\ writes' = StopWrites
              /\ \A c \in Chans : ch'[c].active = 0
              /\ events' = << >>
        /\ (stopped /\ op' = "tick") =>
              /\ writes' = << >>
              /\ events' = << >>
              /\ ch' = ch
        /\ (stopped /\ op' \notin { "start", "set_channel_data" }) => stopped'
      ]_vars

\* C9 witness: a psg_driver_tick that ran a round of channel ticks after a
\* stop, on a channel that was in the middle of a note
C9_Witness ==
    /\ stopped
    /\ op = "tick"
    /\ fired = 1
    /\ \E c \in Chans : ch[c].data_base # NULL /\ ch[c].wait_counter > 1
                        /\ ch[c].data_offset > 0

\* C10: psg_driver_init applied to any state leaves every channel with
\* l_default=24, lplus_default=192, volume=12, octave=4, flags=0, inactive,
\* and tempo_val=10, tempo_counter=10, bpm_x10=1250, register 7 shadow 0xF8;
\* an init applied to the result of an init changes nothing.
C10_InitDefaults ==
    [][ /\ op' = "init" =>
              /\ \A c \in Chans :
                    /\ ch'[c].l_default = 24 /\ ch'[c].lplus_default = 192
                    /\ ch'[c].volume = 12 /\ ch'[c].octave = 4
                    /\ ch'[c].flags = 0 /\ ch'[c].active = 0
              /\ main'.tempo_val = 10 /\ main'.tempo_counter = 10
              /\ main'.bpm_x10 = 1250 /\ main'.reg7_value = 248
        /\ (op = "init" /\ op' = "init") =>
              (main' = main /\ ch' = ch /\ writes' = writes /\ events' = events)
      ]_vars

\* C10 witness: an init applied to a state in which playback had changed a
\* default
C10_Witness ==
    /\ op = "init"
    /\ initfrom = "played"

\* C11 as stated: between the calls, 0 < tempo_val and
\* 0 < tempo_counter <= tempo_val, whatever the operands of the T commands.
C11_TempoPositive ==
    /\ 0 < main.tempo_val
    /\ 0 < main.tempo_counter
    /\ main.tempo_counter <= main.tempo_val

\* C11 (amended): between the calls 0 < tempo_counter <= tempo_val holds
\* whenever tempo_val is not 0, and tempo_val is 0 only after a T command
\* with the operand 0 has set it (T stores its operand unchecked); after T 0
\* the counter is reloaded with 0 and wraps, so that it takes any value of
\* 0..255 and a round runs every 256 calls.
C11_TempoInRange ==
    /\ [](main.tempo_val # 0 =>
             (0 < main.tempo_counter /\ main.tempo_counter <= main.tempo_val))
    /\ [][ (main'.tempo_val = 0 /\ main.tempo_val # 0) =>
              \E k \in 1 .. Len(cmdlog') :
                  /\ cmdlog'[k].code = 248
                  /\ cmdlog'[k].pre.data_base[cmdlog'[k].off + 2] = 0
         ]_vars
    /\ [][ (op' = "tick" /\ main.tempo_val = 0 /\ main'.tempo_val = 0) =>
              main'.tempo_counter = U8(main.tempo_counter - 1) ]_vars

\* C11 witness: a round in which T 255 was executed has reloaded the counter
C11_Witness ==
    /\ op = "tick"
    /\ fired = 1
    /\ \E k \in 1 .. Len(cmdlog) : cmdlog[k].code = 248
    /\ main.tempo_val = 255
    /\ main.tempo_counter = 255

VolumeRegs == { AY_AVOL + c : c \in Chans }

\* C12: every channel's volume is in 0..15 in every state (0x9n sets it to n,
\* 0xAn adds n and stops at 15, 0xBn subtracts n and stops at 0), and every
\* value written to a volume register AVOL+ch is in 0..15, the values
\* volume + volume_adjust of envelope steps and of tied note starts
\* included.
C12_VolumeInRange ==
    /\ \A c \in Chans : ch[c].volume \in 0 .. 15
    /\ \A k \in 1 .. Len(writes) :
          writes[k].reg \in VolumeRegs => writes[k].val \in 0 .. 15
    /\ \A k \in 1 .. Len(cmdlog) :
          LET e == cmdlog[k]
              n == e.code % 16
          IN  /\ Hi4(e.code) = 144 => e.post.volume = n
              /\ Hi4(e.code) = 160 =>
                    e.post.volume = (IF e.pre.volume + n > 15 THEN 15
                                     ELSE e.pre.volume + n)
              /\ Hi4(e.code) = 176 =>
                    e.post.volume = (IF e.pre.volume < n THEN 0
                                     ELSE e.pre.volume - n)
    /\ \A c \in Chans :
          (trace[c].kind = "sounding" /\ WritesBy(c) # << >>
             /\ WritesBy(c)[Len(WritesBy(c))].reg = AY_AVOL + c) =>
                WritesBy(c)[Len(WritesBy(c))].val =
                    Clamp(ch[c].volume + ch[c].volume_adjust, 0, 15)

\* C12 witness: an envelope step below 0 was written as 0, in object data
\* whose earlier tied note start and envelope steps went above 15 and whose
\* volume commands reached both ends
C12_Witness ==
    /\ ch[0].data_base = SongVol
    /\ trace[0].kind = "sounding"
    /\ ndec[0] = 3
    /\ ch[0].volume + ch[0].volume_adjust < 0
    /\ WritesBy(0) = << Wr(0, AY_AVOL, 0) >>

\* the 12-bit periods the writes of the last call put into a fine/coarse
\* register pair
PeriodsWritten ==
    { writes[k].val + 256 * writes[k + 1].val :
        k \in { j \in 1 .. Len(writes) - 1 :
                  /\ writes[j].reg \in { AY_AFINE + 2 * c : c \in Chans }
                  /\ writes[j + 1].reg = writes[j].reg + 1 } }

\* C13: every tone period written through a fine/coarse register pair, at a
\* note start and at an LFO step, lies in 1..0x0FFF, and at a note start it is
\* the computed period (table value >> octave, adjusted by the detune)
\* clamped to that range.
C13_TonePeriodClamped ==
    /\ \A p \in PeriodsWritten : 1 <= p /\ p <= 4095
    /\ \A c \in Chans :
          trace[c].kind = "note" =>
             \E k \in 1 .. Len(writes) - 1 :
                /\ writes[k].by = c /\ writes[k].reg = AY_AFINE + 2 * c
                /\ writes[k].val + 256 * writes[k + 1].val
                      = psg_clamp_tone_12bit(ch[c].freq_value)

\* C13 witness: the note B of octave 8 with the detune 15 was started with
\* the period 0 in both tone registers
C13_Witness ==
    /\ ch[0].data_base = SongDetune
    /\ trace[0].kind = "note"
    /\ ch[0].octave = 8 /\ ch[0].detune = 15
    /\ ch[0].freq_value = 0
    /\ PeriodsWritten = { 0 }

\* C14: right after a note or rest object is decoded, q_counter <
\* wait_counter, where q_counter is 0 for an object with the TIE bit and
\* q_default otherwise, replaced by len-1 when that is >= len; for every
\* length that can be decoded.
C14_GateBelowLength ==
    \A c \in Chans :
        Decoded(trace[c]) =>
            LET q == IF HasBit(trace[c].code, F_TIE) THEN 0 ELSE ch[c].q_default
            IN  /\ ch[c].q_counter < ch[c].wait_counter
                /\ ch[c].q_counter = (IF q >= trace[c].len THEN trace[c].len - 1 ELSE q)

\* C14 witness: a note with the length byte 0 was decoded: wait_counter is 0
\* and q_counter is 0 - 1 in 8 bits
C14_Witness ==
    /\ ch[0].data_base = SongLen0
    /\ trace[0].kind = "note"
    /\ trace[0].len = 0
    /\ ch[0].wait_counter = 0
    /\ ch[0].q_counter = 255

\* C15: while the REST flag of a channel is set, a channel tick that leaves
\* wait_counter above 0 issues no register write and changes nothing of the
\* channel but wait_counter (so no LFO or EG work, volume_adjust or flag), and
\* the value written last to AVOL+ch is 0; a rest of length 48
\* (0x20,48,0xFF) writes AVOL+ch=0 once at its start, with one note event
\* (is_rest=1, len=48), and nothing until the channel ends.
C15_RestIsSilent ==
    /\ [](\A c \in Chans :
             /\ (HasBit(ch[c].flags, CH_F_REST) /\ ch[c].data_base # NULL)
                   => avol[c] = 0
             /\ (ch[c].data_base = SongRest /\ trace[c].kind = "rest") =>
                   /\ writes = << Wr(c, AY_AVOL + c, 0) >>
                   /\ Len(events) = 1
                   /\ events[1].is_rest = 1 /\ events[1].len = 48
             /\ (ch[c].data_base = SongRest /\ trace[c].kind # "rest") =>
                   writes = << >> /\ events = << >>)
    /\ [][ (op' = "tick" /\ fired' = 1) =>
             \A c \in Chans :
                (/\ ch[c].active = 1
                 /\ HasBit(ch[c].flags, CH_F_REST)
                 /\ ch[c].wait_counter # 1) =>
                    /\ WritesBy1(c) = << >>
                    /\ EventsOf1(c) = << >>
                    /\ ch'[c] = [ch[c] EXCEPT !.wait_counter = U16(@ - 1)]
                    /\ trace'[c].kind = "resting"
         ]_vars

\* C15 witness: a channel tick after the gate-off of a note that has an
\* envelope and an LFO running
C15_Witness ==
    /\ ch[0].data_base = SongGate
    /\ trace[0].kind = "resting"
    /\ ndec[0] = 1
    /\ ch[0].wait_counter = 1
    /\ ch[0].eg_width_base # 0
    /\ HasBit(ch[0].flags, CH_F_VIB_ON)
    /\ avol[0] = 0

NestDepth(c) == c.flags % 8

\* a command that only moved the cursor of its channel over n operand bytes
OnlyConsumed(e, n) ==
    /\ e.post = [e.pre EXCEPT !.data_offset = e.off + 1 + n]
    /\ e.post_main = e.pre_main
    /\ e.nw1 = e.nw0 /\ e.ne1 = e.ne0
    /\ e.others

\* C16: the nest depth (flags & 7) is in 0..4 in every state; a [ at depth 4
\* and a ] or : at depth 0 consume their operand bytes (1 for [ and the short
\* ], 2 for the long ] and for :) and change nothing else: neither the depth,
\* nor nest_flag[], nor the l/lplus/octave values, nor the cursor beyond the
\* operands.
C16_NestBounds ==
    /\ \A c \in Chans : NestDepth(ch[c]) \in 0 .. 4
    /\ \A k \in 1 .. Len(cmdlog) :
          LET e == cmdlog[k] IN
          /\ NestDepth(e.pre) \in 0 .. 4 /\ NestDepth(e.post) \in 0 .. 4
          /\ (e.code = 240 /\ NestDepth(e.pre) = 4) => OnlyConsumed(e, 1)
          /\ (e.code = 241 /\ NestDepth(e.pre) = 0) => OnlyConsumed(e, 1)
          /\ (e.code = 242 /\ NestDepth(e.pre) = 0) => OnlyConsumed(e, 2)
          /\ (e.code = 243 /\ NestDepth(e.pre) = 0) => OnlyConsumed(e, 2)
          /\ (e.code = 240 /\ NestDepth(e.pre) < 4) =>
                NestDepth(e.post) = NestDepth(e.pre) + 1

\* C16 witness: one decode loop executed a [ at depth 4 and, back at depth 0,
\* both forms of ] and a :, then started the note behind them
C16_Witness ==
    /\ ch[0].data_base = SongNest
    /\ trace[0].kind = "note"
    /\ ch[0].data_offset = Len(SongNest) - 1
    /\ \E k \in 1 .. Len(cmdlog) : cmdlog[k].code = 240 /\ NestDepth(cmdlog[k].pre) = 4
    /\ \A x \in { 241, 242, 243 } :
          \E k \in 1 .. Len(cmdlog) : cmdlog[k].code = x /\ NestDepth(cmdlog[k].pre) = 0

C18_CursorInSlice ==
    /\ ~oob
    /\ \A c \in Chans :
          ch[c].data_base # NULL => ch[c].data_offset <= Len(ch[c].data_base)

\* C18 witness: the L command at the end of the data took the final 0xFF as
\* its operand, and the next opcode was read behind the data
C18_Witness ==
    /\ ch[0].data_base = SongShort
    /\ SongShort[Len(SongShort)] = 255
    /\ oob
    /\ ch[0].l_default = 255
    /\ ch[0].data_offset > Len(SongShort)

\* C19: every psg_driver_tick returns: the decode loop of no channel runs
\* for ever.
C19_TickTerminates ==
    ~hung

\* the decode loop came back to a configuration it had been in before (same
\* opcode at the same offset with the same channel and main state) without
\* having started a note or rest in between: it repeats for ever
C19_Cycle ==
    \E i, j \in DOMAIN cmdlog :
        /\ i < j
        /\ cmdlog[i].by = 0
        /\ cmdlog[j].by = 0
        /\ cmdlog[i].code = cmdlog[j].code
        /\ cmdlog[i].off = cmdlog[j].off
        /\ cmdlog[i].pre = cmdlog[j].pre
        /\ cmdlog[i].pre_main = cmdlog[j].pre_main
        /\ cmdlog[i].nw0 = cmdlog[j].nw0

\* C19 witness: J directly followed by the end mark; the end mark jumps back
\* to the byte after J, which is the end mark again
C19_Witness ==
    /\ ch[0].data_base = SongJ
    /\ hung
    /\ C19_Cycle
    /\ \E i \in DOMAIN cmdlog :
          /\ cmdlog[i].code = 255
          /\ cmdlog[i].pre.j_return_offset # 0
          /\ cmdlog[i].post.data_offset = cmdlog[i].pre.j_return_offset
          /\ cmdlog[i].post.active = 1

\* C20: W+/- (0xEC) takes its operand d as a signed 8-bit value: the new
\* register-6 shadow, which is also the value written to NOISEPER, is
\* clamp(shadow + d, 0, 31).
C20_SignedOperand ==
    \A k \in DOMAIN cmdlog :
        LET e == cmdlog[k]
            d == I8(e.pre.data_base[e.off + 2])
            v == Clamp(e.pre_main.reg6_value + d, 0, 31)
        IN  e.code = 236 =>
              /\ e.post_main.reg6_value = v
              /\ e.nw1 = e.nw0 + 1
              /\ e.nw1 <= Len(writes) => writes[e.nw1] = Wr(e.by, AY_NOISEPER, v)

\* C20 witness: W+/- with the operand 0xFF (-1 as a signed byte) on the
\* shadow 13 has written 31 to NOISEPER, not 12
C20_Witness ==
    \E k \in DOMAIN cmdlog :
        LET e == cmdlog[k]
        IN  /\ e.code = 236
            /\ e.pre.data_base = SongNoise
            /\ e.pre.data_base[e.off + 2] = 255
            /\ e.pre_main.reg6_value = 13
            /\ e.post_main.reg6_value = 31
            /\ e.nw1 = e.nw0 + 1
            /\ e.nw1 <= Len(writes)
            /\ writes[e.nw1] = Wr(e.by, AY_NOISEPER, 31)

\* the command object k of the log is the last one its channel tick executed
LastOfTick(k) ==
    \A j \in k + 1 .. Len(cmdlog) : cmdlog[j].by # cmdlog[k].by

\* C21: an end mark executed with j_return_offset = 0 (no J was executed by
\* the channel since the init) clears active and ends the channel tick, and
\* an inactive channel is left alone by every later psg_driver_tick: no
\* write, no event, no change of its work.  An end mark executed after a J
\* sets the cursor to the byte following that J, restores the octave the
\* channel had at the J, leaves the channel active and writes nothing, and
\* the same channel tick goes on decoding at that byte.
C21_EndMark ==
    /\ [](\A c \in Chans :
            /\ (ch[c].j_return_offset = 0) = (jmark[c] = NoJ)
            /\ jmark[c] # NoJ =>
                 /\ ch[c].j_return_offset = jmark[c].off + 1
                 /\ ch[c].octave_backup \div 16 = jmark[c].octave)
    /\ [](\A k \in 1 .. Len(cmdlog) :
            LET e == cmdlog[k] IN
            e.code = 255 =>
              /\ e.post_main = e.pre_main /\ e.others
              /\ e.nw1 = e.nw0 /\ e.ne1 = e.ne0
              /\ e.pre.j_return_offset = 0 =>
                   /\ e.post = [e.pre EXCEPT !.data_offset = e.off + 1,
                                             !.active = 0]
                   /\ LastOfTick(k)
                   /\ trace[e.by].kind = "end"
                   /\ ch[e.by] = e.post
              /\ e.pre.j_return_offset # 0 =>
                   /\ e.post = [e.pre EXCEPT
                                  !.data_offset = jmark[e.by].off + 1,
                                  !.octave      = jmark[e.by].octave]
                   /\ e.post.active = 1
                   /\ ch[e.by].active = 1
                   /\ IF LastOfTick(k)
                      THEN \/ /\ Decoded(trace[e.by])
                              /\ trace[e.by].at.data_offset = jmark[e.by].off + 2
                           \/ trace[e.by].kind = "hung"
                      ELSE /\ cmdlog[k + 1].by = e.by
                           /\ cmdlog[k + 1].off = jmark[e.by].off + 1
                           /\ cmdlog[k + 1].pre = e.post)
    /\ [][ \A c \in Chans :
             (ch[c].active = 0 /\ op' = "tick") =>
                /\ ch'[c] = ch[c]
                /\ WritesBy1(c) = << >> /\ EventsOf1(c) = << >>
                /\ trace'[c].kind = "idle"
                /\ \A k \in 1 .. Len(cmdlog') : cmdlog'[k].by # c ]_vars

\* C21 witness: an end mark after a J took the channel, in octave 7, back to
\* the note behind the J in octave 5, and the same channel tick started that
\* note
C21_Witness ==
    /\ ch[0].data_base = SongJLoop
    /\ trace[0].kind = "note"
    /\ ch[0].active = 1
    /\ ch[0].octave = 5
    /\ \E k \in 1 .. Len(cmdlog) :
          /\ cmdlog[k].code = 255
          /\ cmdlog[k].pre.octave = 7
          /\ cmdlog[k].post.data_offset = 4
          /\ LastOfTick(k)

\* C21 witness of the other case: an end mark without a J ended the channel,
\* and a later psg_driver_tick ran a round that left it alone
C21_WitnessEnded ==
    /\ op = "tick" /\ fired = 1
    /\ ch[0].data_base = SongRest
    /\ ch[0].active = 0
    /\ ch[0].data_offset = Len(SongRest)
    /\ trace[0].kind = "idle"
    /\ writes = << >>

\* C22: psg_driver_set_channel_data with a channel index outside 0..2
\* changes nothing of the driver's work and issues no write or event; with an
\* index i in 0..2 it sets data_base to the data given, data_offset = 0,
\* wait_counter = 1 and active = 1 of channel i and changes no other field of
\* that channel, no other channel and nothing of the main work; the next
\* round of channel ticks decodes the object at offset 0 of the data.
C22_SetChannelData ==
    /\ [][ op' = "set_channel_data" =>
             /\ main' = main
             /\ writes' = << >> /\ events' = << >> /\ cmdlog' = << >>
             /\ IF arg'.idx \in Chans
                THEN ch' = [ch EXCEPT ![arg'.idx] =
                               [@ EXCEPT !.data_base    = arg'.data,
                                         !.data_offset  = 0,
                                         !.wait_counter = 1,
                                         !.active       = 1]]
                ELSE ch' = ch ]_vars
    /\ [][ (op = "set_channel_data" /\ arg.idx \in Chans
              /\ op' = "tick" /\ fired' = 1) =>
             LET i  == arg.idx
                 at == { k \in 1 .. Len(cmdlog') : cmdlog'[k].by = i }
             IN  /\ trace'[i].kind \in { "note", "rest", "end", "hung" }
                 /\ IF at = {}
                    THEN trace'[i].at.data_offset = 1
                    ELSE LET k == CHOOSE k \in at : \A j \in at : k <= j
                         IN  /\ cmdlog'[k].off = 0
                             /\ cmdlog'[k].code = arg.data[1] ]_vars

\* C22 witness: data was loaded into channel A while it played other data,
\* after a J, an S and a tie had left their marks in the channel work
C22_Witness ==
    /\ op = "set_channel_data"
    /\ arg = [idx |-> 0, data |-> SongRA]
    /\ ch[0].data_base = SongRA
    /\ ch[0].data_offset = 0 /\ ch[0].wait_counter = 1 /\ ch[0].active = 1
    /\ ch[0].j_return_offset # 0
    /\ ch[0].octave = 7
    /\ ch[0].eg_width_base # 0
    /\ main.tempo_val = 1

\* C22 witness of the other case: a call with the index 3 during the playback
C22_WitnessIgnored ==
    /\ op = "set_channel_data"
    /\ arg.idx = 3
    /\ ch[0].active = 1
    /\ ch[0].data_offset > 0
    /\ ch[0].wait_counter > 1

\* the opcodes that are neither a short-form command (0x80..0xBF) nor a
\* fixed one (0xEA..0xFF)
UnknownCodes == 192 .. 233

\* C23: an opcode in 0xC0..0xE9 moves the cursor of its channel by exactly one
\* byte (it takes no operand), changes nothing else of the channel, of the
\* other channels and of the main work, issues no register write and no note
\* event, and the same channel tick goes on decoding with the next byte.
C23_UnknownOpcode ==
    \A k \in 1 .. Len(cmdlog) :
        LET e == cmdlog[k] IN
        e.code \in UnknownCodes =>
          /\ OnlyConsumed(e, 0)
          /\ IF LastOfTick(k)
             THEN /\ Decoded(trace[e.by])
                  /\ trace[e.by].at.data_offset = e.off + 2
                  /\ trace[e.by].code = e.pre.data_base[e.off + 2]
             ELSE /\ cmdlog[k + 1].by = e.by
                  /\ cmdlog[k + 1].off = e.off + 1
                  /\ cmdlog[k + 1].code = e.pre.data_base[e.off + 2]
                  /\ cmdlog[k + 1].pre = e.post

\* C23 witness: one channel tick passed over the opcodes 0xD5..0xE9 one by
\* one and started the note behind them
C23_Witness ==
    /\ ch[0].data_base = SongUnkHi
    /\ trace[0].kind = "note"
    /\ trace[0].code = 35
    /\ { cmdlog[k].code : k \in 1 .. Len(cmdlog) } = (213 .. 233) \cup { 246 }
    /\ Len(cmdlog) = 22
    /\ ch[0].data_offset = Len(SongUnkHi) - 1

\* x >> n
RECURSIVE Shr(_, _)
Shr(x, n) == IF n = 0 THEN x ELSE Shr(x \div 2, n - 1)

\* C24: psg_calc_tone(octave, note) is table[note] >> octave for octave in
\* 1..8 and note in 1..12, and 0 for the note 0, a note above 12, the octave 0
\* and an octave of 9 or more; tone(4,1) = 0x01DD and tone(5,1) = 0x00EE.
C24_CalcTone ==
    (calc.fn = "psg_calc_tone" /\ calc.done) =>
        LET octave == calc.in[1]
            note   == calc.in[2]
        IN  /\ (octave \in 1 .. 8 /\ note \in 1 .. 12) =>
                  calc.out = Shr(psg_tone_table_oct0[note + 1], octave)
            /\ (note = 0 \/ note > 12 \/ octave = 0 \/ octave >= 9) =>
                  calc.out = 0
            /\ calc.in = << 4, 1 >> => calc.out = 477
            /\ calc.in = << 5, 1 >> => calc.out = 238

\* C24 witness: the function was applied to the C of octave 4
C24_Witness ==
    calc = [fn |-> "psg_calc_tone", in |-> << 4, 1 >>, out |-> 477, done |-> TRUE]

\* floor((12500 + floor(t96 / 2)) / t96), 0 for t96 = 0
BpmOf(t96) == IF t96 = 0 THEN 0 ELSE (12500 + (t96 \div 2)) \div t96

\* C25: calc_bpm_x10_from_t96(t96) = floor((12500 + floor(t96/2)) / t96) for
\* every t96 of 1..255, 0 for t96 = 0 and 1250 for t96 = 10.  The T command
\* takes exactly two operand bytes, sets tempo_val to the first and bpm_x10
\* to that function of it, and changes nothing else; in every state bpm_x10
\* is that function of tempo_val.
C25_TempoCommand ==
    /\ main.bpm_x10 = BpmOf(main.tempo_val)
    /\ (calc.fn = "calc_bpm_x10_from_t96" /\ calc.done) =>
          /\ calc.out = BpmOf(calc.in[1])
          /\ calc.in[1] = 0 => calc.out = 0
          /\ calc.in[1] = 10 => calc.out = 1250
    /\ \A k \in 1 .. Len(cmdlog) :
          LET e   == cmdlog[k]
              t96 == e.pre.data_base[e.off + 2]
          IN  e.code = 248 =>
                /\ e.post = [e.pre EXCEPT !.data_offset = e.off + 3]
                /\ e.post_main = [e.pre_main EXCEPT !.tempo_val = t96,
                                                    !.bpm_x10   = BpmOf(t96)]
                /\ e.others
                /\ e.nw1 = e.nw0 /\ e.ne1 = e.ne0

\* C25 witness: T 255 (with its port byte) was executed and the note behind
\* it reported with the new bpm value, (12500 + 127) \div 255 = 49
C25_Witness ==
    /\ ch[0].data_base = SongT0
    /\ \E k \in 1 .. Len(cmdlog) :
          /\ cmdlog[k].code = 248
          /\ cmdlog[k].pre_main.tempo_val = 10
          /\ cmdlog[k].pre_main.bpm_x10 = 1250
    /\ main.tempo_val = 255
    /\ main.bpm_x10 = 49
    /\ trace[0].kind = "note"
    /\ ch[0].data_offset = 5
    /\ Len(events) = 1 /\ events[1].bpm_x10 = 49

\* C25 witness of the function alone: it was applied to 10
C25_WitnessCalc ==
    calc = [fn |-> "calc_bpm_x10_from_t96", in |-> << 10 >>, out |-> 1250, done |-> TRUE]

\* value of a sign-magnitude byte (bit 7 sign, bits 6..0 magnitude), and the
\* encoding of a value of -127..127
SmValue(b) == IF b >= 128 THEN 0 - (b - 128) ELSE b
SmEncode(v) == IF v < 0 THEN 128 + (0 - v) ELSE v

\* C26: U+/- (0xFC) with the operand byte d, read as a signed 8-bit value,
\* replaces the detune byte by the sign-magnitude encoding of
\* value(detune) + d, for every detune byte and every d for which that sum is
\* in -127..127: 0x05 and -10 give 0x85, 0x83 and +5 give 0x02.  The command
\* takes one operand byte and changes nothing but the detune.
C26_DetuneAdd ==
    /\ (calc.fn = "cmd_Urel_detune" /\ calc.done) =>
          LET v == SmValue(calc.in[1]) + I8(calc.in[2])
          IN  /\ v \in -127 .. 127 => calc.out = SmEncode(v)
              /\ calc.in = << 5, 246 >> => calc.out = 133
              /\ calc.in = << 131, 5 >> => calc.out = 2
    /\ \A k \in 1 .. Len(cmdlog) :
          LET e == cmdlog[k]
              v == SmValue(e.pre.detune) + I8(e.pre.data_base[e.off + 2])
          IN  e.code = 252 =>
                /\ e.post = [e.pre EXCEPT !.data_offset = e.off + 2,
                                          !.detune = e.post.detune]
                /\ v \in -127 .. 127 => e.post.detune = SmEncode(v)
                /\ e.post_main = e.pre_main /\ e.others
                /\ e.nw1 = e.nw0 /\ e.ne1 = e.ne0

\* C26 witness: the detune 0x05 and the operand -10 gave 0x85
C26_Witness ==
    calc = [fn |-> "cmd_Urel_detune", in |-> << 5, 246 >>, out |-> 133, done |-> TRUE]

\* C26 witness in the playback: U+5 on the detune 0x83 left 0x02, and the
\* note behind it was started with it
C26_WitnessPlay ==
    /\ ch[0].data_base = SongU
    /\ trace[0].kind = "note"
    /\ ch[0].detune = 2
    /\ \E k \in 1 .. Len(cmdlog) :
          /\ cmdlog[k].code = 252
          /\ cmdlog[k].pre.detune = 131
          /\ cmdlog[k].pre.data_base[cmdlog[k].off + 2] = 5

\* C27: p6psg_load returns 1 only for a file whose header has
\* 8 <= a_addr < b_addr < c_addr <= filesize, and then each of the three
\* slices is non-empty, lies inside the file buffer and has 0xFF as its last
\* byte; otherwise it returns 0 and leaves *channels as it was.
C27_LoadSlices ==
    (calc.fn = "p6psg_load" /\ calc.done) =>
        LET file == calc.in[1]
            size == Len(file)
            a    == p6psg_addr(file, 0)
            b    == p6psg_addr(file, 2)
            c    == p6psg_addr(file, 4)
        IN  IF calc.out.ret = 1
            THEN /\ 8 <= a /\ a < b /\ b < c /\ c <= size
                 /\ \A k \in 1 .. 3 :
                       LET sl == calc.out.channels[k] IN
                       /\ sl.len > 0
                       /\ sl.ptr >= 0 /\ sl.ptr + sl.len <= size
                       /\ file[sl.ptr + sl.len] = 255
            ELSE /\ calc.out.ret = 0
                 /\ calc.out.channels = NoChannels

\* C27 witness: the file 08 00 0A 00 0B 00 00 00 21 FF FF of 11 bytes, whose
\* c_addr is the file size, was loaded with success; the slice of channel C
\* is empty and starts behind the last byte of the buffer
C27_Witness ==
    /\ calc.fn = "p6psg_load"
    /\ calc.in = << << 8, 0, 10, 0, 11, 0, 0, 0, 33, 255, 255 >>, TRUE >>
    /\ calc.done
    /\ calc.out.ret = 1
    /\ calc.out.channels[3] = [ptr |-> 11, len |-> 0]

\* the codes of the volume commands (0x9n, 0xAn, 0xBn) and of S (0xEA)
VolumeCodes == (144 .. 191) \cup { 234 }

\* C28: when a non-rest note B is decoded directly after a non-rest note A
\* with the TIE bit, with no volume or S command between them, the value B
\* writes to AVOL+ch is the value written last to AVOL+ch before (during A).
C28_TieContinuity ==
    [][ \A c \in Chans :
          ( /\ trace'[c].kind = "note"
            /\ HasBit(trace'[c].at.flags, CH_F_TIE)
            /\ ~HasBit(trace'[c].at.flags, CH_F_REST)
            /\ \A k \in 1 .. Len(cmdlog') :
                  cmdlog'[k].by = c => cmdlog'[k].code \notin VolumeCodes )
          => LastVol(writes', c, -1) = avol[c] ]_vars

\* C28 witness: the E of SongStale, tied to the D before it, was started with
\* the volume 12 + 3 = 15, while the D had been started with 12 and had no
\* envelope step (eg_width_work is still 0, as the start of the D left it)
C28_Witness ==
    /\ ch[0].data_base = SongStale
    /\ trace[0].kind = "note" /\ trace[0].code = 37
    /\ HasBit(trace[0].at.flags, CH_F_TIE)
    /\ ~HasBit(trace[0].at.flags, CH_F_REST)
    /\ cmdlog = << >>
    /\ ch[0].volume = 12
    /\ ch[0].volume_adjust = 3
    /\ ch[0].eg_width_work = 0
    /\ avol[0] = 15

\* C29: the gate-off of a channel (the write AVOL+ch = 0 that sets REST in
\* the middle of a note) happens only for a note with 0 < q_counter, on the
\* channel tick that brings wait_counter down to q_counter, which is the
\* (len - q_counter)-th channel tick after the note start; on every such tick
\* of a sounding note it does happen; it writes nothing else and changes
\* nothing of the channel but wait_counter and the REST flag (no LFO or EG
\* step); and as REST stays set until the next note, it happens once.  With
\* q_counter = 0 there is no gate-off.
C29_GateOff ==
    [][ (op' = "tick" /\ fired' = 1) =>
          \A c \in Chans :
            /\ trace'[c].kind = "gateoff" =>
                 /\ ch[c].q_counter > 0
                 /\ ~HasBit(ch[c].flags, CH_F_REST)
                 /\ ch'[c] = [ch[c] EXCEPT !.wait_counter = ch[c].q_counter,
                                           !.flags = SetBit(@, CH_F_REST)]
                 /\ ch[c].wait_counter = ch[c].q_counter + 1
                 /\ WritesBy1(c) = << Wr(c, AY_AVOL + c, 0) >>
                 /\ EventsOf1(c) = << >>
                 /\ playing[c] # 0 => age[c] + 1 = playing[c] - ch[c].q_counter
            /\ ( /\ ch[c].active = 1
                 /\ ~HasBit(ch[c].flags, CH_F_REST)
                 /\ ch[c].q_counter > 0
                 /\ ch[c].wait_counter = ch[c].q_counter + 1 ) =>
                 trace'[c].kind = "gateoff"
            /\ (HasBit(ch[c].flags, CH_F_REST) /\ ~Decoded(trace'[c])) =>
                 HasBit(ch'[c].flags, CH_F_REST)
            /\ (trace'[c].kind = "note" /\ ~oob') =>
                 /\ ~HasBit(ch'[c].flags, CH_F_REST)
                 /\ ch'[c].q_counter < trace'[c].len \/ trace'[c].len = 0
                 /\ ( HasBit(trace'[c].code, F_TIE) \/ ch'[c].q_default = 0 ) =>
                       ch'[c].q_counter = 0 \/ trace'[c].len = 0
      ]_vars

\* C29 witness: the C of SongGate (len 6, Q3), with an envelope and an LFO
\* running, had its gate-off on the third channel tick after its start
C29_Witness ==
    /\ ch[0].data_base = SongGate
    /\ trace[0].kind = "gateoff"
    /\ ndec[0] = 1
    /\ playing[0] = 6 /\ age[0] = 3
    /\ ch[0].q_counter = 3 /\ ch[0].wait_counter = 3
    /\ ch[0].eg_width_base # 0
    /\ HasBit(ch[0].flags, CH_F_VIB_ON)
    /\ writes = << Wr(0, AY_AVOL, 0) >>

\* the count n of the loop in the object data LoopShort(n) or LoopLong(n)
LoopCount(data) == data[5]

\* C30: in [ n body ] with n in 1..255 and a ] whose operand is the
\* displacement back to the first byte of the body (one byte with the implied
\* high byte 0xFF, or two bytes), the body is decoded exactly n times: the
\* first pass finds the count n, every ] lowers it by one and goes back to
\* the body while it is not 0, and the ] of the pass that finds the count 1
\* leaves the loop: the nest depth is 0 again and the object behind the ]
\* operand is decoded next.
C30_LoopCount ==
    /\ [](ch[0].data_base \in LoopSongs =>
            LET n == LoopCount(ch[0].data_base) IN
            /\ ~oob /\ ~hung
            /\ NestDepth(ch[0]) \in { 0, 1 }
            /\ (trace[0].kind = "note" /\ trace[0].code = 33) =>
                  /\ NestDepth(ch[0]) = 1
                  /\ ch[0].nest_flag[1] \in 1 .. n
                  /\ ndec[0] = 1 => ch[0].nest_flag[1] = n
                  /\ ch[0].data_offset = 7
                  /\ ndec[0] < MaxDec => ndec[0] = n - ch[0].nest_flag[1] + 1
            /\ (trace[0].kind = "note" /\ trace[0].code = 35) =>
                  /\ NestDepth(ch[0]) = 0
                  /\ ch[0].nest_flag[1] = 0
                  /\ ch[0].data_offset = Len(ch[0].data_base) - 1
                  /\ n + 1 < MaxDec => ndec[0] = n + 1
                  /\ \E k \in 1 .. Len(cmdlog) :
                        /\ cmdlog[k].code \in { 241, 242 }
                        /\ cmdlog[k].pre.nest_flag[1] = 1
                        /\ cmdlog[k].post.data_offset = trace[0].at.data_offset - 1
            /\ \A k \in 1 .. Len(cmdlog) :
                  LET e == cmdlog[k] IN
                  e.code \in { 241, 242 } =>
                     /\ e.post.nest_flag[1] = e.pre.nest_flag[1] - 1
                     /\ e.post.nest_flag[1] # 0 =>
                           (e.post.data_offset = 5 /\ NestDepth(e.post) = 1))
    /\ [][ ( /\ ch[0].data_base \in LoopSongs
             /\ trace[0].kind = "note" /\ trace[0].code = 33
             /\ op' = "tick" /\ fired' = 1 ) =>
               IF ch[0].nest_flag[1] > 1
               THEN /\ trace'[0].kind = "note" /\ trace'[0].code = 33
                    /\ ch'[0].nest_flag[1] = ch[0].nest_flag[1] - 1
               ELSE /\ trace'[0].kind = "note" /\ trace'[0].code = 35
         ]_vars

\* C30 witness: the loop with the count 255 and the one-byte displacement was
\* left by the ] of the pass that found the count 1, and the note behind the
\* loop was decoded
C30_Witness ==
    /\ ch[0].data_base = LoopShort(255)
    /\ trace[0].kind = "note" /\ trace[0].code = 35
    /\ NestDepth(ch[0]) = 0
    /\ ndec[0] = MaxDec
    /\ \E k \in 1 .. Len(cmdlog) :
          cmdlog[k].code = 241 /\ cmdlog[k].pre.nest_flag[1] = 1

\* C31: in [ n A : B ] with n >= 1 the : consumes its two operand bytes in
\* every pass, and leaves the level (count 0, depth one lower, cursor moved
\* on by its offset) only in the pass that finds the count 1: A is decoded n
\* times, B n - 1 times, and the object behind the loop is decoded at the
\* depth the [ was found at.
C31_LoopBreak ==
    /\ [](ch[0].data_base \in BreakSongs =>
            LET n == LoopCount(ch[0].data_base) IN
            /\ ~oob /\ ~hung
            /\ \A k \in 1 .. Len(cmdlog) :
                  LET e == cmdlog[k] IN
                  e.code = 243 =>
                     /\ NestDepth(e.pre) = 1
                     /\ IF e.pre.nest_flag[1] = 1
                        THEN /\ e.post.data_offset = e.off + 3 + 4
                             /\ NestDepth(e.post) = 0
                             /\ e.post.nest_flag[1] = 0
                        ELSE /\ e.post.data_offset = e.off + 3
                             /\ e.post = [e.pre EXCEPT !.data_offset = e.off + 3]
            /\ (trace[0].kind = "note" /\ trace[0].code = 33) =>
                  /\ NestDepth(ch[0]) = 1
                  /\ ch[0].nest_flag[1] \in 1 .. n
                  /\ ndec[0] = 1 => ch[0].nest_flag[1] = n
                  /\ ndec[0] < MaxDec => ndec[0] = 2 * (n - ch[0].nest_flag[1]) + 1
            /\ (trace[0].kind = "note" /\ trace[0].code = 35) =>
                  /\ NestDepth(ch[0]) = 1
                  /\ ch[0].nest_flag[1] \in 2 .. n
                  /\ ndec[0] < MaxDec => ndec[0] = 2 * (n - ch[0].nest_flag[1]) + 2
            /\ (trace[0].kind = "note" /\ trace[0].code = 37) =>
                  /\ NestDepth(ch[0]) = 0
                  /\ ch[0].nest_flag[1] = 0
                  /\ ch[0].data_offset = 16
                  /\ 2 * n < MaxDec => ndec[0] = 2 * n)
    /\ [][ ( /\ ch[0].data_base \in BreakSongs
             /\ trace[0].kind = "note" /\ trace[0].code \in { 33, 35 }
             /\ op' = "tick" /\ fired' = 1 ) =>
               /\ trace'[0].kind = "note"
               /\ CASE trace[0].code = 33 /\ ch[0].nest_flag[1] > 1 ->
                         /\ trace'[0].code = 35
                         /\ ch'[0].nest_flag[1] = ch[0].nest_flag[1]
                    [] trace[0].code = 33 /\ ch[0].nest_flag[1] = 1 ->
                         trace'[0].code = 37
                    [] trace[0].code = 35 ->
                         /\ trace'[0].code = 33
                         /\ ch'[0].nest_flag[1] = ch[0].nest_flag[1] - 1
                    [] OTHER -> FALSE
         ]_vars

\* C31 witness: in the loop with the count 3 the : has passed twice and then
\* left the level, and the note behind the loop was decoded as the sixth
C31_Witness ==
    /\ ch[0].data_base = BreakSong(3)
    /\ trace[0].kind = "note" /\ trace[0].code = 37
    /\ NestDepth(ch[0]) = 0
    /\ ndec[0] = 6
    /\ \E k \in 1 .. Len(cmdlog) :
          /\ cmdlog[k].code = 243
          /\ cmdlog[k].pre.nest_flag[1] = 1
          /\ NestDepth(cmdlog[k].post) = 0

\* the command object e is a ] that goes back to the body of its loop
LoopsBack(e) ==
    /\ e.code \in { 241, 242 }
    /\ NestDepth(e.pre) \in 1 .. 4
    /\ e.pre.nest_flag[NestDepth(e.pre)] # 1

\* the marks of its channel when the command object k of the log of the step
\* just taken was executed
MarksBefore(k) ==
    MarksAt(cmdlog', cmdlog'[k].by, k - 1,
            IF op' = "init" THEN NoMarks ELSE lmark[cmdlog'[k].by])

\* C32 (as stated): a ] that loops back restores l_default, lplus_default and
\* octave to the values they had at the [ of the same nest level.
C32_RestoreOwnLevel ==
    [][\A k \in 1 .. Len(cmdlog') :
          LET e == cmdlog'[k] IN
          LoopsBack(e) =>
             LET m == MarksBefore(k).lv[NestDepth(e.pre)] IN
             /\ e.post.l_default = m.l
             /\ e.post.lplus_default = m.lplus
             /\ e.post.octave = m.octave]_vars

\* C32 (amended): the channel has one set of backups.  Every [ that enters a
\* level stores l_default, lplus_default and octave in it, no other command
\* object changes it, and a ] that loops back restores the three from it:
\* they get the values they had at the [ the channel executed last, whatever
\* its level.
C32_RestoreLatest ==
    /\ [](\A k \in 1 .. Len(cmdlog) :
            LET e == cmdlog[k] IN
            /\ LoopsBack(e) =>
                  /\ e.post.l_default = e.pre.l_backup
                  /\ e.post.lplus_default = e.pre.lplus_backup
                  /\ e.post.octave = e.pre.octave_backup % 16
            /\ IF e.code = 240 /\ NestDepth(e.pre) < 4
               THEN /\ e.post.l_backup = e.pre.l_default
                    /\ e.post.lplus_backup = e.pre.lplus_default
                    /\ e.post.octave_backup % 16 = e.pre.octave
               ELSE /\ e.post.l_backup = e.pre.l_backup
                    /\ e.post.lplus_backup = e.pre.lplus_backup
                    /\ e.post.octave_backup % 16 = e.pre.octave_backup % 16)
    /\ [](\A c \in Chans :
            lmark[c].last # NoMark =>
               /\ ch[c].l_backup = lmark[c].last.l
               /\ ch[c].lplus_backup = lmark[c].last.lplus
               /\ ch[c].octave_backup % 16 = lmark[c].last.octave)
    /\ [][\A k \in 1 .. Len(cmdlog') :
            LET e == cmdlog'[k] IN
            LoopsBack(e) =>
               LET m == MarksBefore(k) IN
               /\ m.last # NoMark
               /\ e.post.l_default = m.last.l
               /\ e.post.lplus_default = m.last.lplus
               /\ e.post.octave = m.last.octave]_vars

\* C32 witness: the outer ] of SongNestB has looped back after the inner loop
\* was entered and left, and has restored what the inner [ had stored (o3, L7,
\* L+9) and not what the outer [ had found (o5, L10, L+20)
C32_Witness ==
    /\ ch[0].data_base = SongNestB
    /\ trace[0].kind = "note"
    /\ \E k \in 1 .. Len(cmdlog) :
          /\ LoopsBack(cmdlog[k])
          /\ NestDepth(cmdlog[k].pre) = 1
          /\ cmdlog[k].post.octave = 3
          /\ cmdlog[k].post.l_default = 7
          /\ cmdlog[k].post.lplus_default = 9
          /\ \E i \in 1 .. k - 1 :
                /\ cmdlog[i].code = 240 /\ NestDepth(cmdlog[i].pre) = 0
                /\ cmdlog[i].pre.octave = 5
                /\ cmdlog[i].pre.l_default = 10
                /\ cmdlog[i].pre.lplus_default = 20
                /\ \E j \in i + 1 .. k - 1 :
                      cmdlog[j].code = 240 /\ NestDepth(cmdlog[j].pre) = 1

\* C32 witness: in SongNestA, whose loop has no loop inside, the ] has looped
\* back from o2, L7, L+9 to the o5, L10, L+20 of its [
C32_WitnessOwn ==
    /\ ch[0].data_base = SongNestA
    /\ lmark[0].lv[1] = [l |-> 10, lplus |-> 20, octave |-> 5]
    /\ \E k \in 1 .. Len(cmdlog) :
          /\ LoopsBack(cmdlog[k])
          /\ cmdlog[k].pre.octave = 2 /\ cmdlog[k].post.octave = 5
          /\ cmdlog[k].pre.l_default = 7 /\ cmdlog[k].post.l_default = 10
          /\ cmdlog[k].pre.lplus_default = 9 /\ cmdlog[k].post.lplus_default = 20

\* the volume writes of channel c in the step just taken
VolWrites1(c) == SelectSeq(writes', LAMBDA x : x.by = c /\ x.reg = AY_AVOL + c)

\* the tone writes of channel c in the step just taken
ToneWrites1(c) == SelectSeq(writes', LAMBDA x : x.by = c /\ x.reg # AY_AVOL + c)

\* the step just taken was a channel tick of c that went on with its sounding
\* note (no decode, no rest, no gate-off)
Sounding1(c) == op' = "tick" /\ fired' = 1 /\ trace'[c].kind = "sounding"

\* C33: on a sounding tick with eg_width_base # 0 and PSG_EG_STAGE2 clear,
\* eg_count_work is decremented (as a byte).  While it is not 0 nothing else
\* of the envelope changes and no volume is written.  When it is 0 and
\* eg_width_work # eg_width_base: the count is reloaded from eg_count_base,
\* eg_delta_base is added to eg_width_work, volume_adjust gets that sum (both
\* are signed bytes) and clamp(volume + volume_adjust, 0, 15) is written to
\* AVOL+ch.  When it is 0 and eg_width_work = eg_width_base: PSG_EG_STAGE2 is
\* set, eg_width_work = 0, eg_count_work = eg2_count_base & 0x7F, and only
\* with eg2_width_base # 0 volume_adjust = eg2_width_base + eg_width_base and
\* the clamped volume is written.  PSG_EG_STAGE2 is cleared only by the start
\* of a note that follows an object without a tie, with eg_width_base # 0 (and
\* by psg_driver_init, which resets the channel).
C33_EgStage1 ==
    [][\A c \in Chans :
         /\ ( /\ Sounding1(c)
              /\ ch[c].eg_width_base # 0
              /\ ~HasBit(ch[c].flags, CH_F_PSG_EG) ) =>
                LET n   == U8(ch[c].eg_count_work - 1)
                    vol == Clamp(ch'[c].volume + ch'[c].volume_adjust, 0, 15)
                IN  /\ ch'[c].volume = ch[c].volume
                    /\ ch'[c].eg_width_base = ch[c].eg_width_base
                    /\ IF n # 0
                       THEN /\ ch'[c].eg_count_work = n
                            /\ ch'[c].eg_width_work = ch[c].eg_width_work
                            /\ ch'[c].volume_adjust = ch[c].volume_adjust
                            /\ ~HasBit(ch'[c].flags, CH_F_PSG_EG)
                            /\ VolWrites1(c) = << >>
                       ELSE IF ch[c].eg_width_work # ch[c].eg_width_base
                       THEN /\ ch'[c].eg_count_work = ch[c].eg_count_base
                            /\ ch'[c].eg_width_work =
                                  I8(ch[c].eg_width_work + ch[c].eg_delta_base)
                            /\ ch'[c].volume_adjust = ch'[c].eg_width_work
                            /\ ~HasBit(ch'[c].flags, CH_F_PSG_EG)
                            /\ VolWrites1(c) = << Wr(c, AY_AVOL + c, vol) >>
                       ELSE /\ HasBit(ch'[c].flags, CH_F_PSG_EG)
                            /\ ch'[c].eg_width_work = 0
                            /\ ch'[c].eg_count_work = U8(ch[c].eg2_count_base) % 128
                            /\ IF ch[c].eg2_width_base # 0
                               THEN /\ ch'[c].volume_adjust =
                                          I8(ch[c].eg2_width_base + ch[c].eg_width_base)
                                    /\ VolWrites1(c) = << Wr(c, AY_AVOL + c, vol) >>
                               ELSE /\ ch'[c].volume_adjust = ch[c].volume_adjust
                                    /\ VolWrites1(c) = << >>
         /\ (HasBit(ch[c].flags, CH_F_PSG_EG) /\ ~HasBit(ch'[c].flags, CH_F_PSG_EG)) =>
               \/ op' = "init"
               \/ /\ op' = "tick"
                  /\ trace'[c].kind = "note"
                  /\ ~HasBit(trace'[c].at.flags, CH_F_TIE)
                  /\ ch'[c].eg_width_base # 0
         /\ ( /\ op' = "tick" /\ trace'[c].kind = "note"
              /\ ~HasBit(trace'[c].at.flags, CH_F_TIE)
              /\ ch'[c].eg_width_base # 0 ) =>
               /\ ~HasBit(ch'[c].flags, CH_F_PSG_EG)
               /\ ch'[c].eg_width_work = 0
               /\ ch'[c].eg_count_work = ch'[c].eg_count_base
      ]_vars

\* C33 witness: the C of SongEgA (v5, S(3,2,1,2,1)) has reached the width 3
\* after six sounding ticks and entered stage 2 on the eighth, writing the
\* volume 5 + (2 + 3)
C33_Witness ==
    /\ ch[0].data_base = SongEgA
    /\ trace[0].kind = "sounding"
    /\ ndec[0] = 1 /\ age[0] = 8
    /\ HasBit(ch[0].flags, CH_F_PSG_EG)
    /\ ch[0].eg_width_work = 0 /\ ch[0].eg_count_work = 1
    /\ ch[0].volume_adjust = 5
    /\ writes = << Wr(0, AY_AVOL, 10) >>

\* C33 witness: stage 2 has outlasted the start of the tied D of SongEgT
C33_WitnessTied ==
    /\ ch[0].data_base = SongEgT
    /\ trace[0].kind = "note" /\ trace[0].code = 35
    /\ HasBit(trace[0].at.flags, CH_F_TIE)
    /\ HasBit(ch[0].flags, CH_F_PSG_EG)

\* C33 witness: stage 2 was entered without a volume write (SongEgB,
\* eg2_width_base = 0)
C33_WitnessSilent ==
    /\ ch[0].data_base = SongEgB
    /\ trace[0].kind = "sounding"
    /\ HasBit(ch[0].flags, CH_F_PSG_EG)
    /\ ch[0].eg_width_work = 0
    /\ ch[0].volume_adjust = 2
    /\ writes = << >>

\* the envelope work of a channel
EgState(c) ==
    << c.eg_count_work, c.eg_width_work, c.volume_adjust,
       HasBit(c.flags, CH_F_PSG_EG), c.eg_width_base, c.eg_count_base,
       c.eg_delta_base, c.eg2_width_base, c.eg2_count_base >>

\* C34: on a sounding tick in stage 2 (eg_width_base # 0, PSG_EG_STAGE2 set)
\* with eg2_width_base # 0, eg_count_work is decremented; when it becomes 0
\* it is reloaded from eg2_count_base & 0x7F, eg_width_work grows by 1 unless
\* it is 15 already, volume_adjust = delta + eg_width_base + eg2_width_base
\* with delta = eg_width_work, negated when bit 7 of eg2_count_base is set,
\* and clamp(volume + volume_adjust, 0, 15) is written to AVOL+ch; otherwise
\* only the count changes.  With eg2_width_base = 0 the tick writes no volume
\* and leaves the envelope work as it is.  In stage 2 eg_width_work is in
\* 0..15.
C34_EgStage2 ==
    /\ [](\A c \in Chans :
            (HasBit(ch[c].flags, CH_F_PSG_EG) /\ op # "init") =>
               ch[c].eg_width_work \in 0 .. 15)
    /\ [][\A c \in Chans :
            ( /\ Sounding1(c)
              /\ ch[c].eg_width_base # 0
              /\ HasBit(ch[c].flags, CH_F_PSG_EG) ) =>
                IF ch[c].eg2_width_base = 0
                THEN /\ EgState(ch'[c]) = EgState(ch[c])
                     /\ VolWrites1(c) = << >>
                ELSE LET n     == U8(ch[c].eg_count_work - 1)
                         ww    == IF ch[c].eg_width_work < 15
                                  THEN ch[c].eg_width_work + 1 ELSE 15
                         delta == IF HasBit(U8(ch[c].eg2_count_base), 128)
                                  THEN 0 - ww ELSE ww
                         adj   == I8(delta + ch[c].eg_width_base + ch[c].eg2_width_base)
                     IN  /\ HasBit(ch'[c].flags, CH_F_PSG_EG)
                         /\ IF n # 0
                            THEN /\ EgState(ch'[c]) =
                                      EgState([ch[c] EXCEPT !.eg_count_work = n])
                                 /\ VolWrites1(c) = << >>
                            ELSE /\ EgState(ch'[c]) =
                                      EgState([ch[c] EXCEPT
                                         !.eg_count_work = U8(ch[c].eg2_count_base) % 128,
                                         !.eg_width_work = ww,
                                         !.volume_adjust = adj])
                                 /\ VolWrites1(c) =
                                      << Wr(c, AY_AVOL + c,
                                            Clamp(ch[c].volume + adj, 0, 15)) >>
      ]_vars

\* C34 witness: in SongEgCap the width of stage 2 was 15 and a further step
\* has left it at 15, with volume_adjust = 15 + 1 + 1
C34_Witness ==
    /\ ch[0].data_base = SongEgCap
    /\ trace[0].kind = "sounding"
    /\ age[0] = 18
    /\ HasBit(ch[0].flags, CH_F_PSG_EG)
    /\ ch[0].eg_width_work = 15
    /\ ch[0].volume_adjust = 17
    /\ writes = << Wr(0, AY_AVOL, 15) >>

\* C34 witness: a falling second stage (SongEgC, bit 7 of eg2_count_base set):
\* the second step, on the ninth sounding tick, gave volume_adjust = -2 - 4 - 3
C34_WitnessFalling ==
    /\ ch[0].data_base = SongEgC
    /\ trace[0].kind = "sounding"
    /\ age[0] = 9
    /\ ch[0].eg_width_work = 2
    /\ ch[0].volume_adjust = -9
    /\ writes = << Wr(0, AY_AVOL, 3) >>

\* C34 witness: a sounding tick in stage 2 with eg2_width_base = 0 (SongEgB)
C34_WitnessIdle ==
    /\ ch[0].data_base = SongEgB
    /\ trace[0].kind = "sounding"
    /\ HasBit(ch[0].flags, CH_F_PSG_EG)
    /\ ch[0].eg2_width_base = 0
    /\ age[0] = 4
    /\ writes = << >>

\* the LFO work of a channel
LfoState(c) ==
    << c.vib_offset, c.vib_wait_work, c.vib_count_work, c.vib_amp_work,
       HasBit(c.flags, CH_F_VIB_PM), HasBit(c.flags, CH_F_VIB_ON),
       c.vib_wait_base, c.vib_count_base, c.vib_amp_base, c.vib_delta_base,
       c.freq_value >>

\* the period of the LFO steps
LfoPeriod(c) == IF c.vib_count_base = 0 THEN 1 ELSE c.vib_count_base

\* channel c after an LFO step
LfoStepped(c) ==
    LET step == U8(c.vib_delta_base) % 128
        voff == IF HasBit(c.flags, CH_F_VIB_PM) THEN I16(c.vib_offset - step)
                ELSE I16(c.vib_offset + step)
        turn == c.vib_amp_base # 0 /\ c.vib_amp_work = 1
    IN  [c EXCEPT !.vib_offset     = voff,
                  !.vib_count_work = LfoPeriod(c),
                  !.vib_amp_work   = IF c.vib_amp_base = 0 THEN @
                                     ELSE IF turn THEN c.vib_amp_base ELSE @ - 1,
                  !.flags          = IF ~turn THEN @
                                     ELSE IF HasBit(@, CH_F_VIB_PM)
                                     THEN @ - CH_F_VIB_PM ELSE @ + CH_F_VIB_PM]

\* the two tone registers of channel c receive the period t
ToneWrite(c, t) ==
    << Wr(c, AY_AFINE + 2 * c, t % 256), Wr(c, AY_AFINE + 2 * c + 1, t \div 256) >>

\* what an LFO step does on a sounding tick of c: the pair of tone writes, the
\* offset moved by the step against or with VIB_PM, the count reloaded, the
\* amplitude count lowered and, at 0, reloaded with VIB_PM toggled
LfoStep1(c) ==
    /\ LfoState(ch'[c]) = LfoState(LfoStepped(ch[c]))
    /\ ToneWrites1(c) =
          ToneWrite(c, Clamp(ch[c].freq_value + ch'[c].vib_offset, 1, 4095))

\* C35 (as stated): on a sounding tick with VIB_ON set, the LFO only
\* decrements vib_wait_work while it is above 0; afterwards it steps on every
\* max(vib_count_base, 1)-th sounding tick, counted from its initialisation or
\* its last step, and on the others it writes no tone.
C35_LfoEveryPeriod ==
    [][\A c \in Chans :
         (Sounding1(c) /\ HasBit(ch[c].flags, CH_F_VIB_ON)) =>
            IF ch[c].vib_wait_work > 0
            THEN /\ LfoState(ch'[c]) =
                       LfoState([ch[c] EXCEPT !.vib_wait_work = @ - 1])
                 /\ ToneWrites1(c) = << >>
            ELSE IF lfoage[c].n + 1 = LfoPeriod(ch[c])
            THEN LfoStep1(c)
            ELSE ToneWrites1(c) = << >>
      ]_vars

\* C35 (amended): on a sounding tick with VIB_ON set, the LFO only decrements
\* vib_wait_work while it is above 0; afterwards it decrements vib_count_work
\* as a byte and steps when that becomes 0, reloading it with
\* max(vib_count_base, 1).  Once psg_vibrato_note_init was run for the
\* channel (by an M command, or by a note start with VIB_ON set that follows
\* an object without a tie) the steps are max(vib_count_base, 1) sounding
\* ticks apart; a channel whose LFO was switched on by M% and never
\* initialised has vib_count_work = 0 and steps first after 256 ticks.
C35_LfoStep ==
    /\ [](\A c \in Chans :
            IF lfoage[c].init
            THEN /\ ch[c].vib_count_work \in 1 .. LfoPeriod(ch[c])
                 /\ lfoage[c].n = LfoPeriod(ch[c]) - ch[c].vib_count_work
            ELSE /\ ch[c].vib_count_base = 0
                 /\ ch[c].vib_count_work = U8(0 - lfoage[c].n))
    /\ [][\A c \in Chans :
            (Sounding1(c) /\ HasBit(ch[c].flags, CH_F_VIB_ON)) =>
               IF ch[c].vib_wait_work > 0
               THEN /\ LfoState(ch'[c]) =
                          LfoState([ch[c] EXCEPT !.vib_wait_work = @ - 1])
                    /\ ToneWrites1(c) = << >>
               ELSE /\ IF U8(ch[c].vib_count_work - 1) = 0
                       THEN LfoStep1(c)
                       ELSE /\ LfoState(ch'[c]) =
                                  LfoState([ch[c] EXCEPT !.vib_count_work = U8(@ - 1)])
                            /\ ToneWrites1(c) = << >>
                    /\ lfoage[c].init =>
                          (ToneWrites1(c) # << >>) = (lfoage[c].n + 1 = LfoPeriod(ch[c]))
         ]_vars

\* C35 witness: in SongLfoE the LFO, switched on by M% 5 before the tied D
\* and never initialised, has passed a sounding tick without a step although
\* its period is 1
C35_Witness ==
    /\ ch[0].data_base = SongLfoE
    /\ trace[0].kind = "sounding"
    /\ HasBit(ch[0].flags, CH_F_VIB_ON)
    /\ ch[0].vib_count_base = 0 /\ ch[0].vib_wait_work = 0
    /\ ch[0].vib_count_work = 255
    /\ lfoage[0] = [n |-> 1, init |-> FALSE]
    /\ writes = << >>

\* C35 witness: the C of SongLfoA (M(2,3,2,1)) has waited two sounding ticks
\* and stepped on the fifth and the eighth; the second step has turned the LFO
C35_WitnessTurn ==
    /\ ch[0].data_base = SongLfoA
    /\ trace[0].kind = "sounding"
    /\ age[0] = 8
    /\ ch[0].vib_offset = -2
    /\ ch[0].vib_amp_work = 4
    /\ ~HasBit(ch[0].flags, CH_F_VIB_PM)
    /\ writes = ToneWrite(0, ch[0].freq_value - 2)

\* the backend object is initialised and enabled
BeReady == be.ctx = 1 /\ be.enabled = 1

\* the message a refused call leaves in last_error
GuardError(call) ==
    IF be.ctx = 0 THEN
        (IF call = "reset" THEN "reset: ctx is NULL (not initialized?)"
         ELSE "write_reg: ctx is NULL (not initialized?)")
    ELSE
        (IF call = "reset" THEN "reset: backend is disabled"
         ELSE "write_reg: backend is disabled")

\* C36: the GPIO backend makes the sound chip see a register write or a
\* reset only when it is initialised and enabled.  ctx is allocated exactly
\* between a successful init and the next fini.  write_reg and reset on an
\* object that is not initialised or not enabled return 0, access no
\* hardware register, set last_error and change nothing else; when ready,
\* write_reg stores val into register reg & 15 and reset pulses RESET once.
\* disable on an enabled backend stores 0x3f into the mixer register and 0
\* into the three volume registers, in this order, and clears enabled; on a
\* disabled backend it causes no register write.
C36_GpioGuard ==
    /\ [](be.ctx = 1 <=> be.life = "init")
    /\ [](be.enabled = 1 => be.ctx = 1)
    /\ [][ be'.psgbe =>
            /\ be'.ym # << >> => BeReady
            /\ be'.call \in { "write_reg", "reset" } /\ ~BeReady =>
                   /\ be'.ret = 0
                   /\ be'.hw = << >>
                   /\ be'.last_error = GuardError(be'.call)
                   /\ be'.ctx = be.ctx /\ be'.enabled = be.enabled
            /\ be'.call = "write_reg" /\ BeReady =>
                   /\ be'.ret = 1
                   /\ be'.ym = << [reg |-> be'.reg % 16, val |-> be'.val] >>
                   /\ be'.last_error = be.last_error
            /\ be'.call = "reset" /\ BeReady =>
                   /\ be'.ret = 1
                   /\ be'.ym = << [reg |-> -1, val |-> 0] >>
            /\ be'.call = "disable" /\ BeReady =>
                   /\ be'.ym = << [reg |-> AY_ENABLE, val |-> 63],
                                  [reg |-> AY_AVOL, val |-> 0],
                                  [reg |-> AY_BVOL, val |-> 0],
                                  [reg |-> AY_CVOL, val |-> 0] >>
                   /\ be'.enabled = 0 /\ be'.ctx = 1
            /\ be'.call = "disable" /\ ~BeReady =>
                   /\ be'.ym = << >>
                   /\ be'.enabled = 0 /\ be'.ctx = be.ctx
          ]_be

\* write_reg after fini has been refused
C36_Witness ==
    /\ be.call = "write_reg" /\ be.psgbe /\ be.life = "fini"
    /\ be.ret = 0 /\ be.hw = << >>
    /\ be.last_error = "write_reg: ctx is NULL (not initialized?)"

\* a second disable has found the backend disabled
C36_WitnessDisabled ==
    /\ be.call = "disable" /\ be.psgbe /\ be.life = "init"
    /\ be.enabled = 0 /\ be.ym = << >> /\ be.hw # << >>

\* a register write has reached the chip through an alias of register 7
C36_WitnessWrite ==
    /\ be.call = "write_reg" /\ be.reg = 23 /\ be.ret = 1
    /\ be.val = 165 /\ be.ym = << [reg |-> 7, val |-> 165] >>

\* C37: a channel that has decoded its end mark since its data were set (ended)
\* is inactive, and a psg_driver_tick, psg_driver_start or psg_driver_stop
\* leaves it inactive with its cursor where it was, decodes nothing for it
\* and issues no register write and no note event for it.
C37_EndedStays ==
    /\ [](\A c \in Chans : ended[c] => ch[c].active = 0)
    /\ [][ \A c \in Chans :
              (ended[c] /\ op' \in { "tick", "start", "stop" }) =>
                  /\ ch'[c].active = 0
                  /\ ch'[c].data_offset = ch[c].data_offset
                  /\ trace'[c].kind = "idle"
                  /\ WritesBy1(c) = << >>
                  /\ EventsOf1(c) = << >>
          ]_vars

\* C37 without psg_driver_start: ticks and stops leave an ended channel as
\* it is, as long as no psg_driver_start has made it active again
C37_EndedStaysUnlessStarted ==
    [][ \A c \in Chans :
          (ended[c] /\ ch[c].active = 0 /\ op' \in { "tick", "stop" }) =>
              /\ ch'[c].active = 0
              /\ ch'[c].data_offset = ch[c].data_offset
              /\ ch'[c].wait_counter = ch[c].wait_counter
              /\ trace'[c].kind = "idle"
              /\ WritesBy1(c) = << >>
              /\ EventsOf1(c) = << >>
      ]_vars

\* C37 witness: psg_driver_start has made a channel active again that had
\* decoded its end mark, and the next psg_driver_tick has run its channel
\* tick with the wait counter wrapped from 0 to 65535
C37_Witness ==
    \E c \in Chans :
        /\ ended[c] /\ op = "tick"
        /\ ch[c].active = 1
        /\ ch[c].wait_counter = 65535

\* the writes of w to register reg
RegWrites(w, reg) == SelectSeq(w, LAMBDA x : x.reg = reg)

\* the value w writes last to register reg, old when it writes none
LastReg(w, reg, old) ==
    IF RegWrites(w, reg) = << >> THEN old
    ELSE RegWrites(w, reg)[Len(RegWrites(w, reg))].val

\* the commands of the log with an opcode of codes
CmdsOf(log, codes) == SelectSeq(log, LAMBDA x : x.code \in codes)

\* C38: after every call reg7_value is the value of the last write to
\* register 7 and reg6_value the value of the last write to register 6, of
\* whichever channel: psg_driver_init writes 0xF8 and 0xC0, a call whose
\* writes include one to the register leaves the last value written in the
\* shadow, and a call without such a write leaves the shadow alone.  The
\* writes to register 6 are those of the W and W+/- commands and the writes
\* to register 7 those of the P1, P2 and P3 commands, one per command, and
\* the one of psg_driver_init.
C38_ShadowIsLastWrite ==
    /\ [](op = "init" =>
             /\ main.reg7_value = 248 /\ main.reg6_value = 192
             /\ RegWrites(writes, AY_ENABLE) = << Wr(3, AY_ENABLE, 248) >>
             /\ RegWrites(writes, AY_NOISEPER) = << Wr(3, AY_NOISEPER, 192) >>)
    /\ [][ /\ main'.reg7_value = LastReg(writes', AY_ENABLE, main.reg7_value)
           /\ main'.reg6_value = LastReg(writes', AY_NOISEPER, main.reg6_value)
           /\ op' # "init" =>
                 /\ Len(RegWrites(writes', AY_ENABLE))
                        = Len(CmdsOf(cmdlog', { 237, 238, 239 }))
                 /\ Len(RegWrites(writes', AY_NOISEPER))
                        = Len(CmdsOf(cmdlog', { 235, 236 }))
         ]_vars

\* C38 witness: in one psg_driver_tick two channels have written register 7
\* and the shadow holds the value of the later one
C38_Witness ==
    /\ op = "tick"
    /\ Len(RegWrites(writes, AY_ENABLE)) >= 2
    /\ RegWrites(writes, AY_ENABLE)[1].by # RegWrites(writes, AY_ENABLE)[2].by
    /\ RegWrites(writes, AY_ENABLE)[1].val # main.reg7_value
    /\ main.reg7_value
           = RegWrites(writes, AY_ENABLE)[Len(RegWrites(writes, AY_ENABLE))].val

\* C38 witness: a W command has written register 6 and the shadow follows
C38_WitnessNoise ==
    /\ op = "tick"
    /\ CmdsOf(cmdlog, { 235 }) # << >>
    /\ RegWrites(writes, AY_NOISEPER) # << >>
    /\ main.reg6_value # 192

\* the bound p3 * (p4 & 0x7F) of the M command in force on channel c
LfoBound(c) == lastm[c].p3 * (lastm[c].p4 % 128)

Abs(x) == IF x < 0 THEN 0 - x ELSE x

\* C39: while an M command with p3 in 1..127 is in force on a channel (no M%
\* and no other M since), vib_offset is a multiple of the step s = p4 & 0x7F
\* with |vib_offset| <= p3 * s, the swing counter vib_amp_work is in
\* 1..2*p3, and whenever the direction has just turned (vib_amp_work =
\* 2*p3) vib_offset is at the extreme p3 * s on the side it is leaving; this
\* holds across note starts, ties, rests and gate-offs.
C39_LfoTriangle ==
    \A c \in Chans :
        (lastm[c] # NoM /\ lastm[c].p3 \in 1 .. 127) =>
            /\ ch[c].vib_amp_base = 2 * lastm[c].p3
            /\ Abs(ch[c].vib_offset) <= LfoBound(c)
            /\ ch[c].vib_amp_work \in 1 .. ch[c].vib_amp_base
            /\ \E k \in 0 .. lastm[c].p3 :
                   Abs(ch[c].vib_offset) = k * (lastm[c].p4 % 128)
            /\ ch[c].vib_amp_work = ch[c].vib_amp_base =>
                   ch[c].vib_offset = IF HasBit(ch[c].flags, CH_F_VIB_PM)
                                      THEN LfoBound(c) ELSE 0 - LfoBound(c)

\* C39 witness: after the first swing of p3 steps and a full swing of 2*p3
\* steps back the offset is at the opposite extreme
C39_Witness ==
    \E c \in Chans :
        /\ lastm[c] # NoM /\ lastm[c].p3 \in 2 .. 127
        /\ lastm[c].p4 \in 1 .. 127
        /\ ch[c].vib_offset = LfoBound(c)
        /\ ch[c].vib_amp_work = ch[c].vib_amp_base
        /\ HasBit(ch[c].flags, CH_F_VIB_PM)

\* C39 witness: a tied note has started while the LFO of the M command was
\* away from the centre, and the offset kept its value
C39_WitnessTie ==
    \E c \in Chans :
        /\ lastm[c] # NoM /\ lastm[c].p3 \in 1 .. 127
        /\ trace[c].kind = "note" /\ HasBit(trace[c].at.flags, CH_F_TIE)
        /\ ch[c].vib_offset # 0

\* channel c is in the first stage of the envelope
EgStage1(c) == ch[c].eg_width_base # 0 /\ ~HasBit(ch[c].flags, CH_F_PSG_EG)

\* x lies between 0 and b, whichever sign b has
Between0(x, b) == IF b >= 0 THEN 0 <= x /\ x <= b ELSE b <= x /\ x <= 0

\* the step of the S command reaches the width exactly: eg_width_base is a
\* positive multiple of eg_delta_base (or the step is 0 and nothing moves)
EgStepFits(c) ==
    \/ ch[c].eg_delta_base = 0
    \/ \E k \in 1 .. 127 : ch[c].eg_width_base = k * ch[c].eg_delta_base

C40_WitnessWrapped ==
    \E c \in Chans :
        /\ EgStage1(c) /\ eginit[c]
        /\ ch[c].eg_width_base = 3 /\ ch[c].eg_delta_base = 2
        /\ ch[c].eg_width_work < 0

====
